---- MODULE Spec2Model ----
(***************************************************************************)
(* State-machine model of the farseer supplier engine: the VAX client      *)
(* (login, per-vendor search, multi-vendor orchestration) and the          *)
(* database-backed result cache.                                           *)
(*                                                                         *)
(* Strings the code inspects character by character are sequences of       *)
(* one-character strings; every other string is an atomic value.           *)
(***************************************************************************)
EXTENDS Integers, Sequences, FiniteSets, TLC

\* ------------------------------------------------------------------------
\* Bounds of the model
\* ------------------------------------------------------------------------
\* number of saveSearchResultsToCache calls started in one behaviour
MaxPuts == 2
\* number of getCachedSearchResults calls observed in one behaviour
MaxGets == 1
\* number of searchAllVendors calls in one behaviour
MaxCalls == 1
\* longest vendor list the search surface offers
MaxVendors == 2
\* hours the clock may advance
MaxTime == 3
\* largest room count of the parameter sets whose cache keys are compared
KeyMaxRooms == 2
\* number of login, ensureLoggedIn and logout calls in one behaviour
MaxAuthCalls == 3
\* largest number of hotel boundary rows of an extracted document
ExtractMaxRows == 2
\* search requests the SearchService creates in one run
MaxRequests == 2

\* ------------------------------------------------------------------------
\* JavaScript values
\* ------------------------------------------------------------------------
\* an absent (undefined) optional property, and a present one
Absent == [has |-> FALSE]

Some(v) == [has |-> TRUE, v |-> v]

\* a NULL column, and a column holding a value
Null == [null |-> TRUE]

Col(v) == [null |-> FALSE, v |-> v]

\* the Invalid Date produced by new Date(str) on an unparsable string
InvalidDate == [valid |-> FALSE]

ValidDate(days) == [valid |-> TRUE, days |-> days]

\* the null returned by getCachedSearchResults, and a returned hotel list
Miss == [hit |-> FALSE]

Hit(hotels) == [hit |-> TRUE, hotels |-> hotels]
\* an exception leaving a function
Thrown == [threw |-> TRUE]

DigitChars == <<"0", "1", "2", "3", "4", "5", "6", "7", "8", "9">>

AlnumChars ==
  {"A", "B", "L", "S", "T", "V", "a", "b", "c", "d", "l", "t", "v", "x"}
    \cup {DigitChars[i] : i \in 1..10}

RECURSIVE NatToStr(_)
\* Number.prototype.toString() of a non-negative integer
NatToStr(n) ==
  IF n < 10 THEN <<DigitChars[n + 1]>>
  ELSE NatToStr(n \div 10) \o <<DigitChars[(n % 10) + 1]>>

RECURSIVE JoinWith(_, _)
\* Array.prototype.join(sep) over an array of strings
JoinWith(parts, sep) ==
  IF Len(parts) = 0 THEN <<>>
  ELSE IF Len(parts) = 1 THEN parts[1]
  ELSE parts[1] \o <<sep>> \o JoinWith(Tail(parts), sep)

\* digit value of a character, -1 for a non-digit
DigitVal(c) ==
  IF \E i \in 1..10 : DigitChars[i] = c
  THEN (CHOOSE i \in 1..10 : DigitChars[i] = c) - 1
  ELSE -1

\* n written with exactly w digits (w in 2, 4)
PadNum(n, w) ==
  IF w = 2 THEN <<DigitChars[((n \div 10) % 10) + 1], DigitChars[(n % 10) + 1]>>
  ELSE <<DigitChars[((n \div 1000) % 10) + 1], DigitChars[((n \div 100) % 10) + 1],
         DigitChars[((n \div 10) % 10) + 1], DigitChars[(n % 10) + 1]>>

\* ------------------------------------------------------------------------
\* Dates: new Date("YYYY-MM-DD") and toISOString().split("T")[0]
\* ------------------------------------------------------------------------
IsLeap(y) == (y % 4 = 0 /\ y % 100 # 0) \/ y % 400 = 0

DaysInMonth(y, m) ==
  IF m = 2 THEN (IF IsLeap(y) THEN 29 ELSE 28)
  ELSE IF m \in {4, 6, 9, 11} THEN 30 ELSE 31

\* days since 1970-01-01 of a civil date (proleptic Gregorian)
DaysFromCivil(y0, m, d) ==
  LET y   == IF m <= 2 THEN y0 - 1 ELSE y0
      era == y \div 400
      yoe == y - era * 400
      mp  == IF m > 2 THEN m - 3 ELSE m + 9
      doy == ((153 * mp + 2) \div 5) + d - 1
      doe == yoe * 365 + (yoe \div 4) - (yoe \div 100) + doy
  IN era * 146097 + doe - 719468

\* civil date <<y, m, d>> of a day number
CivilFromDays(z0) ==
  LET z   == z0 + 719468
      era == z \div 146097
      doe == z - era * 146097
      yoe == (doe - (doe \div 1460) + (doe \div 36524) - (doe \div 146096)) \div 365
      doy == doe - (365 * yoe + (yoe \div 4) - (yoe \div 100))
      mp  == (5 * doy + 2) \div 153
      d   == doy - ((153 * mp + 2) \div 5) + 1
      m   == IF mp < 10 THEN mp + 3 ELSE mp - 9
      y   == yoe + era * 400 + (IF m <= 2 THEN 1 ELSE 0)
  IN <<y, m, d>>

\* new Date(str) for a date-only string: the UTC day number, or InvalidDate
NewDate(s) ==
  IF /\ Len(s) = 10
     /\ s[5] = "-" /\ s[8] = "-"
     /\ \A i \in {1, 2, 3, 4, 6, 7, 9, 10} : DigitVal(s[i]) >= 0
  THEN LET y == DigitVal(s[1]) * 1000 + DigitVal(s[2]) * 100
                + DigitVal(s[3]) * 10 + DigitVal(s[4])
           m == DigitVal(s[6]) * 10 + DigitVal(s[7])
           d == DigitVal(s[9]) * 10 + DigitVal(s[10])
       IN IF m \in 1..12 /\ d >= 1 /\ d <= DaysInMonth(y, m)
          THEN ValidDate(DaysFromCivil(y, m, d))
          ELSE InvalidDate
  ELSE InvalidDate

\* date.toISOString().split("T")[0] of a stored DateTime
IsoDatePart(date) ==
  LET c == CivilFromDays(date.days)
  IN PadNum(c[1], 4) \o <<"-">> \o PadNum(c[2], 2) \o <<"-">> \o PadNum(c[3], 2)

\* ------------------------------------------------------------------------
\* JSON.stringify / JSON.parse of a string array (text as a token sequence)
\* ------------------------------------------------------------------------
RECURSIVE JsonElems(_)
JsonElems(arr) ==
  IF Len(arr) = 0 THEN <<>>
  ELSE IF Len(arr) = 1 THEN <<"\"", arr[1], "\"">>
  ELSE <<"\"", arr[1], "\"", ",">> \o JsonElems(Tail(arr))

JsonStringify(arr) == <<"[">> \o JsonElems(arr) \o <<"]">>

RECURSIVE JsonParseFrom(_, _)
JsonParseFrom(text, i) ==
  IF i > Len(text) \/ text[i] = "]" THEN <<>>
  ELSE IF text[i] = "," THEN JsonParseFrom(text, i + 1)
  ELSE <<text[i + 1]>> \o JsonParseFrom(text, i + 3)

JsonParse(text) == JsonParseFrom(text, 2)

RECURSIVE JsonElemsWellFormed(_)
\* the text between the brackets is a comma-separated list of quoted strings
JsonElemsWellFormed(e) ==
  \/ Len(e) = 0
  \/ /\ Len(e) >= 3
     /\ e[1] = "\"" /\ e[3] = "\""
     /\ \/ Len(e) = 3
        \/ /\ Len(e) > 4
           /\ e[4] = ","
           /\ JsonElemsWellFormed(SubSeq(e, 5, Len(e)))

\* JSON.parse(text) returns an array; otherwise JSON.parse throws a
\* SyntaxError, or the .length read of a parsed null throws a TypeError
JsonParsesToArray(text) ==
  /\ Len(text) >= 2
  /\ text[1] = "[" /\ text[Len(text)] = "]"
  /\ JsonElemsWellFormed(SubSeq(text, 2, Len(text) - 1))

\* ------------------------------------------------------------------------
\* Search parameters and the canonical cache key
\* ------------------------------------------------------------------------
\* the string "YYYY-MM-DD" of a civil date
DateStr(y, m, d) == PadNum(y, 4) \o <<"-">> \o PadNum(m, 2) \o <<"-">> \o PadNum(d, 2)

\* const sanitize = (str) => str.replace(/[^a-zA-Z0-9]/g, "_")
sanitize(str) == [i \in 1..Len(str) |-> IF str[i] \in AlnumChars THEN str[i] ELSE "_"]

\* numbers[0].toString() in place of numbers.join(sep)
JoinNumsFirstOnly(nums, sep) == IF Len(nums) = 0 THEN <<>> ELSE NatToStr(nums[1])

\* numbers.join(sep)
JoinNums(nums, sep) == JoinWith([i \in 1..Len(nums) |-> NatToStr(nums[i])], sep)

generateSearchCacheKey(params) ==
  LET base == <<sanitize(params.origin), sanitize(params.destination),
                params.checkIn, params.checkOut,
                NatToStr(params.rooms), JoinNums(params.adultsPerRoom, "-")>>
      ages == JoinWith([i \in 1..Len(params.childAges) |->
                          JoinNums(params.childAges[i], "-")], "_")
      parts == IF \E i \in 1..Len(params.childrenPerRoom) : params.childrenPerRoom[i] > 0
               THEN IF Len(params.childAges) > 0
                    THEN base \o <<JoinNums(params.childrenPerRoom, "-"), ages>>
                    ELSE base \o <<JoinNums(params.childrenPerRoom, "-")>>
               ELSE base
  IN JoinWith(parts, "_")

\* the key of the origin, destination, dates, rooms and adults alone
generateCacheKeyNoChildren(params) ==
  JoinWith(<<sanitize(params.origin), sanitize(params.destination),
             params.checkIn, params.checkOut,
             NatToStr(params.rooms), JoinNums(params.adultsPerRoom, "-")>>, "_")

\* SearchService.generateCacheKey(params): parts pushed one by one and joined
generateCacheKey(params) ==
  LET parts == <<sanitize(params.origin), sanitize(params.destination),
                 params.checkIn, params.checkOut,
                 NatToStr(params.rooms), JoinNums(params.adultsPerRoom, "-")>>
      some == \E i \in 1..Len(params.childrenPerRoom) : params.childrenPerRoom[i] > 0
      withChildren == IF some
                      THEN Append(parts, JoinNums(params.childrenPerRoom, "-"))
                      ELSE parts
      withAges == IF some /\ Len(params.childAges) > 0
                  THEN Append(withChildren,
                              JoinWith([i \in 1..Len(params.childAges) |->
                                          JoinNums(params.childAges[i], "-")], "_"))
                  ELSE withChildren
  IN JoinWith(withAges, "_")

\* one room for two adults, Atlanta to Las Vegas
ParamsATL ==
  [origin |-> <<"A", "T", "L">>, destination |-> <<"L", "A", "S">>,
   checkIn |-> DateStr(2026, 1, 10), checkOut |-> DateStr(2026, 1, 17),
   rooms |-> 1, adultsPerRoom |-> <<2>>, childrenPerRoom |-> <<0>>,
   childAges |-> << <<>> >>]

\* two rooms, one child
ParamsTwoRooms ==
  [origin |-> <<"A", "T", "L">>, destination |-> <<"L", "A", "S">>,
   checkIn |-> DateStr(2026, 2, 28), checkOut |-> DateStr(2026, 3, 1),
   rooms |-> 2, adultsPerRoom |-> <<2, 1>>, childrenPerRoom |-> <<1, 0>>,
   childAges |-> << <<5>>, <<>> >>]

\* a check-in string that new Date() cannot parse
ParamsBadDate ==
  [origin |-> <<"A", "T", "L">>, destination |-> <<"L", "A", "S">>,
   checkIn |-> <<"1", "0", "J", "A", "N", "2", "6">>, checkOut |-> DateStr(2026, 1, 17),
   rooms |-> 1, adultsPerRoom |-> <<2>>, childrenPerRoom |-> <<0>>,
   childAges |-> << <<>> >>]

ParamsPool == {ParamsATL, ParamsTwoRooms, ParamsBadDate}

\* the parameter sets the cache callers use
CacheParams == {ParamsATL, ParamsTwoRooms}

KeyPool == {generateSearchCacheKey(p) : p \in ParamsPool}

\* origin codes as callers may write them: "ATL" and "AT-L "
KeyOrigins == {<<"A", "T", "L">>, <<"A", "T", "-", "L", " ">>}

\* adults-per-room lists of one to KeyMaxRooms rooms
KeyAdultLists == UNION {[1..n -> {1, 11}] : n \in 1..KeyMaxRooms}

\* the parameter sets whose cache keys are compared
KeyParams ==
  [origin : KeyOrigins, destination : {<<"L", "A", "S">>},
   checkIn : {DateStr(2026, 1, 10)}, checkOut : {DateStr(2026, 1, 17)},
   rooms : 1..KeyMaxRooms, adultsPerRoom : KeyAdultLists,
   childrenPerRoom : {<<0>>, <<1>>}, childAges : {<< <<>> >>, << <<5>> >>}]

\* ------------------------------------------------------------------------
\* Hotel results (VaxHotelResult, VaxRoomOption); prices in cents
\* ------------------------------------------------------------------------
RoomPlain ==
  [code |-> "K", name |-> "King", totalPrice |-> 45000, pricePerPerson |-> Absent,
   addedValues |-> Absent, valueIndicators |-> Absent]

RoomFull ==
  [code |-> "Q", name |-> "Queen", totalPrice |-> 0, pricePerPerson |-> Some(0),
   addedValues |-> Some(<<"$150 credit">>),
   valueIndicators |-> Some(<<"Upgrade Bonus", "Deal">>)]

RoomEmptyLists ==
  [code |-> "S", name |-> "Suite", totalPrice |-> 90000, pricePerPerson |-> Some(45000),
   addedValues |-> Some(<<>>), valueIndicators |-> Some(<<>>)]

HotelA ==
  [hotelId |-> "101", name |-> "Alpha", rating |-> 4, location |-> "Strip",
   vendor |-> "FJ1", remoteSource |-> "HBSHotel", destinationCode |-> "LAS",
   checkIn |-> DateStr(2026, 1, 10), checkOut |-> DateStr(2026, 1, 17),
   tripAdvisorRating |-> Absent, tripAdvisorReviews |-> Absent,
   distanceFromAirport |-> Absent, cleaningBadge |-> Absent,
   rooms |-> <<RoomPlain, RoomFull>>]

HotelB ==
  [hotelId |-> "202", name |-> "Bravo", rating |-> 0, location |-> "",
   vendor |-> "AV1", remoteSource |-> "HBSHotel", destinationCode |-> "LAS",
   checkIn |-> DateStr(2024, 2, 29), checkOut |-> DateStr(2024, 3, 1),
   tripAdvisorRating |-> Some(0), tripAdvisorReviews |-> Some(1200),
   distanceFromAirport |-> Some(3), cleaningBadge |-> Some("CLEAN"),
   rooms |-> <<RoomFull>>]

HotelEmptyLists ==
  [hotelId |-> "303", name |-> "Gamma", rating |-> 5, location |-> "Downtown",
   vendor |-> "FJ1", remoteSource |-> "HBSHotel", destinationCode |-> "LAS",
   checkIn |-> DateStr(2026, 12, 31), checkOut |-> DateStr(2027, 1, 1),
   tripAdvisorRating |-> Absent, tripAdvisorReviews |-> Absent,
   distanceFromAirport |-> Absent, cleaningBadge |-> Absent,
   rooms |-> <<RoomEmptyLists>>]

\* a hotel parsed from a document without header dates: checkIn = checkOut = ""
HotelNoDates ==
  [hotelId |-> "404", name |-> "Delta", rating |-> 3, location |-> "Airport",
   vendor |-> "AV1", remoteSource |-> "HBSHotel", destinationCode |-> "LAS",
   checkIn |-> <<>>, checkOut |-> <<>>,
   tripAdvisorRating |-> Absent, tripAdvisorReviews |-> Absent,
   distanceFromAirport |-> Absent, cleaningBadge |-> Absent,
   rooms |-> <<>>]

HotelListPool ==
  {<<>>, <<HotelB, HotelA>>, <<HotelA, HotelB>>, <<HotelEmptyLists>>, <<HotelNoDates>>}

\* ------------------------------------------------------------------------
\* The relational store behind the cache (SearchCache, Hotel, Room tables)
\* ------------------------------------------------------------------------
\* value ?? null
NullIfAbsent(v) == IF v = Absent THEN Null ELSE Col(v.v)

\* value ?? []
EmptyIfAbsent(v) == IF v = Absent THEN <<>> ELSE v.v

RECURSIVE RowsBefore(_, _)
\* rows (hotel and room rows) inserted before hotel i of a nested create
RowsBefore(hotels, i) ==
  IF i <= 1 THEN 0
  ELSE RowsBefore(hotels, i - 1) + 1 + Len(hotels[i - 1].rooms)

\* all rows a nested create of this hotel list inserts, cache row included
RowCount(hotels) == 1 + RowsBefore(hotels, Len(hotels) + 1)

HotelRow(hotel, id, cacheId) ==
  [id |-> id, searchCacheId |-> cacheId,
   hotelId |-> hotel.hotelId, name |-> hotel.name, vendor |-> hotel.vendor,
   remoteSource |-> hotel.remoteSource, destinationCode |-> hotel.destinationCode,
   rating |-> hotel.rating,
   tripAdvisorRating |-> NullIfAbsent(hotel.tripAdvisorRating),
   tripAdvisorReviews |-> NullIfAbsent(hotel.tripAdvisorReviews),
   location |-> hotel.location,
   distanceFromAirport |-> NullIfAbsent(hotel.distanceFromAirport),
   cleaningBadge |-> NullIfAbsent(hotel.cleaningBadge),
   checkIn |-> NewDate(hotel.checkIn), checkOut |-> NewDate(hotel.checkOut)]

RoomRow(room, id, hotelRowId) ==
  [id |-> id, hotelId |-> hotelRowId,
   code |-> room.code, name |-> room.name, totalPrice |-> room.totalPrice,
   pricePerPerson |-> NullIfAbsent(room.pricePerPerson),
   addedValues |-> JsonStringify(EmptyIfAbsent(room.addedValues)),
   valueIndicators |-> JsonStringify(EmptyIfAbsent(room.valueIndicators))]

\* the arguments of prisma.searchCache.create pass validation: every DateTime is valid
CreateArgsValid(params, hotels) ==
  /\ NewDate(params.checkIn) # InvalidDate
  /\ NewDate(params.checkOut) # InvalidDate
  /\ \A i \in 1..Len(hotels) :
       /\ NewDate(hotels[i].checkIn) # InvalidDate
       /\ NewDate(hotels[i].checkOut) # InvalidDate

\* the unique index on SearchCache.cacheKey
KeyPresent(d, key) == \E r \in d.searchCache : r.cacheKey = key

\* prisma.searchCache.deleteMany({ where: { cacheKey } }) without the cascade
DeleteManyNoCascade(d, key) ==
  [d EXCEPT !.searchCache = {r \in d.searchCache : r.cacheKey # key}]

\* prisma.searchCache.deleteMany({ where: { cacheKey } }), cascading to Hotel and Room
DeleteMany(d, key) ==
  LET gone   == {r.id : r \in {x \in d.searchCache : x.cacheKey = key}}
      hgone  == {h.id : h \in {x \in d.hotel : x.searchCacheId \in gone}}
  IN [d EXCEPT !.searchCache = {r \in d.searchCache : r.id \notin gone},
               !.hotel = {h \in d.hotel : h.searchCacheId \notin gone},
               !.room = {r \in d.room : r.hotelId \notin hgone}]

\* prisma.searchCache.create with nested hotels.create / rooms.create (one transaction)
Create(d, params, hotels, t) ==
  LET cid == d.seq
      hid(i) == cid + 1 + RowsBefore(hotels, i)
  IN [searchCache |-> d.searchCache \cup
        {[id |-> cid, cacheKey |-> generateSearchCacheKey(params), createdAt |-> t]},
      hotel |-> d.hotel \cup {HotelRow(hotels[i], hid(i), cid) : i \in 1..Len(hotels)},
      room |-> d.room \cup
        UNION {{RoomRow(hotels[i].rooms[j], hid(i) + j, hid(i)) :
                  j \in 1..Len(hotels[i].rooms)} : i \in 1..Len(hotels)},
      seq |-> d.seq + RowCount(hotels)]

RECURSIVE RowsInOrder(_)
\* rows of a table in the order the store returns them (insertion order)
RowsInOrder(rows) ==
  IF rows = {} THEN <<>>
  ELSE LET first == CHOOSE r \in rows : \A o \in rows : r.id <= o.id
       IN <<first>> \o RowsInOrder(rows \ {first})

\* the optional column is never copied into the result
OptionalFromColumnDropped(c) == IF c = Null THEN Absent ELSE Absent

\* if (column !== null) result.field = column
OptionalFromColumn(c) == IF c = Null THEN Absent ELSE Some(c.v)

\* const parsed = JSON.parse(column); if (parsed.length > 0) result.field = parsed
OptionalListFromColumn(text) ==
  LET parsed == JsonParse(text) IN IF Len(parsed) > 0 THEN Some(parsed) ELSE Absent

RoomFromRow(row) ==
  [code |-> row.code, name |-> row.name, totalPrice |-> row.totalPrice,
   pricePerPerson |-> OptionalFromColumn(row.pricePerPerson),
   addedValues |-> OptionalListFromColumn(row.addedValues),
   valueIndicators |-> OptionalListFromColumn(row.valueIndicators)]

HotelFromRow(d, row) ==
  LET rrows == RowsInOrder({r \in d.room : r.hotelId = row.id})
  IN [hotelId |-> row.hotelId, name |-> row.name, rating |-> row.rating,
      location |-> row.location, vendor |-> row.vendor,
      remoteSource |-> row.remoteSource, destinationCode |-> row.destinationCode,
      checkIn |-> IsoDatePart(row.checkIn), checkOut |-> IsoDatePart(row.checkOut),
      tripAdvisorRating |-> OptionalFromColumn(row.tripAdvisorRating),
      tripAdvisorReviews |-> OptionalFromColumn(row.tripAdvisorReviews),
      distanceFromAirport |-> OptionalFromColumn(row.distanceFromAirport),
      cleaningBadge |-> OptionalFromColumn(row.cleaningBadge),
      rooms |-> [j \in 1..Len(rrows) |-> RoomFromRow(rrows[j])]]

\* a Room row of the key's entry holds a list column JSON.parse cannot turn
\* into an array
EntryMalformed(d, key) ==
  \E c \in d.searchCache, h \in d.hotel, r \in d.room :
    /\ c.cacheKey = key /\ h.searchCacheId = c.id /\ r.hotelId = h.id
    /\ ~(JsonParsesToArray(r.addedValues) /\ JsonParsesToArray(r.valueIndicators))

\* the try block of getCachedSearchResults: findUnique rejects on a store
\* failure, the conversion throws on a malformed list column
GetCachedTry(d, params, fault) ==
  LET key == generateSearchCacheKey(params)
  IN IF fault THEN Thrown
     ELSE IF ~KeyPresent(d, key) THEN Miss
     ELSE IF EntryMalformed(d, key) THEN Thrown
     ELSE LET c == CHOOSE r \in d.searchCache : r.cacheKey = key
              hrows == RowsInOrder({h \in d.hotel : h.searchCacheId = c.id})
          IN Hit([i \in 1..Len(hrows) |-> HotelFromRow(d, hrows[i])])

\* catch (error) { throw error }
GetCachedCatchRethrows(r) == r

\* catch (error) { console.warn(...); return null }
GetCachedCatch(r) == IF r = Thrown THEN Miss ELSE r

\* getCachedSearchResults(params): the hotel list, or null
getCachedSearchResults(d, params, fault) == GetCachedCatch(GetCachedTry(d, params, fault))

EmptyDb == [searchCache |-> {}, hotel |-> {}, room |-> {}, seq |-> 1]

\* ------------------------------------------------------------------------
\* Extraction of hotels from a search response document (VaxClient, cached
\* variant).  A document is what the selectors and patterns see: the two
\* header date groups and, per hotel boundary row, the extracted fragments.
\* ------------------------------------------------------------------------
UpperChars ==
  {"A", "B", "C", "D", "E", "F", "G", "J", "L", "M", "N", "O", "P", "R", "S",
   "T", "U", "V", "Y"}

IsDigitChar(c) == DigitVal(c) >= 0

\* const monthMap: Record<string, string>
monthMap ==
  [k \in {<<"J", "A", "N">>, <<"F", "E", "B">>, <<"M", "A", "R">>, <<"A", "P", "R">>,
          <<"M", "A", "Y">>, <<"J", "U", "N">>, <<"J", "U", "L">>, <<"A", "U", "G">>,
          <<"S", "E", "P">>, <<"O", "C", "T">>, <<"N", "O", "V">>, <<"D", "E", "C">>} |->
     CASE k = <<"J", "A", "N">> -> <<"0", "1">>
       [] k = <<"F", "E", "B">> -> <<"0", "2">>
       [] k = <<"M", "A", "R">> -> <<"0", "3">>
       [] k = <<"A", "P", "R">> -> <<"0", "4">>
       [] k = <<"M", "A", "Y">> -> <<"0", "5">>
       [] k = <<"J", "U", "N">> -> <<"0", "6">>
       [] k = <<"J", "U", "L">> -> <<"0", "7">>
       [] k = <<"A", "U", "G">> -> <<"0", "8">>
       [] k = <<"S", "E", "P">> -> <<"0", "9">>
       [] k = <<"O", "C", "T">> -> <<"1", "0">>
       [] k = <<"N", "O", "V">> -> <<"1", "1">>
       [] OTHER -> <<"1", "2">>]

\* positions where /[A-Z]{3}/ matches
UpperRuns(str) ==
  {i \in 1..(Len(str) - 2) : \A j \in 0..2 : str[i + j] \in UpperChars}

\* monthMap lookup that answers "01" for every month
MonthOfAlwaysJanuary(monthStr) == <<"0", "1">>

\* const month = monthMap[monthStr] || "01"
MonthOf(monthStr) ==
  IF monthStr \in DOMAIN monthMap THEN monthMap[monthStr] ELSE <<"0", "1">>

\* the year with a pivot: 19YY from 50 on
YearOfPivot(yy) == (IF DigitVal(yy[1]) >= 5 THEN <<"1", "9">> ELSE <<"2", "0">>) \o yy

\* const year = `20${yearMatch[1]}`
YearOf(yy) == <<"2", "0">> \o yy

parseVaxShortDate(dateStr) ==
  IF Len(dateStr) = 0 THEN <<>>
  ELSE LET dayOk   == Len(dateStr) >= 2 /\ IsDigitChar(dateStr[1]) /\ IsDigitChar(dateStr[2])
           yearOk  == Len(dateStr) >= 2 /\ IsDigitChar(dateStr[Len(dateStr) - 1])
                        /\ IsDigitChar(dateStr[Len(dateStr)])
           monthOk == UpperRuns(dateStr) # {}
       IN IF ~dayOk \/ ~monthOk \/ ~yearOk THEN dateStr
          ELSE LET at       == CHOOSE i \in UpperRuns(dateStr) :
                                 \A o \in UpperRuns(dateStr) : i <= o
                   monthStr == <<dateStr[at], dateStr[at + 1], dateStr[at + 2]>>
                   day      == <<dateStr[1], dateStr[2]>>
                   year     == YearOf(<<dateStr[Len(dateStr) - 1], dateStr[Len(dateStr)]>>)
                   month    == MonthOf(monthStr)
               IN year \o <<"-">> \o month \o <<"-">> \o day

RECURSIVE parseRoomOptions(_)
\* the rows between this hotel boundary row and the next one, in row order
parseRoomOptions(rows) ==
  IF Len(rows) = 0 THEN <<>>
  ELSE LET row == rows[1]
           room == [code |-> row.code, name |-> row.name,
                    totalPrice |-> IF row.price = Absent THEN 0 ELSE row.price.v,
                    pricePerPerson |-> row.perPerson,
                    addedValues |-> IF Len(row.addedValues) > 0
                                    THEN Some(row.addedValues) ELSE Absent,
                    valueIndicators |-> IF Len(row.valueIndicators) > 0
                                        THEN Some(row.valueIndicators) ELSE Absent]
       IN IF row.hasWrapper /\ row.name # ""
          THEN <<room>> \o parseRoomOptions(Tail(rows))
          ELSE parseRoomOptions(Tail(rows))

\* the name test left out
HasNameAlways(section) == TRUE

\* if (!name) return null
HasName(section) == section.name # ""

\* the hotel of one boundary row, or Absent (null) when the row is not a hotel
parseHotelSection(section, checkIn, checkOut) ==
  IF ~section.hasInfo \/ ~HasName(section) THEN Absent
  ELSE Some([hotelId |-> section.hotelId, name |-> section.name,
             rating |-> section.ratingMarkers, location |-> section.location,
             rooms |-> parseRoomOptions(section.roomRows),
             vendor |-> section.vendor, remoteSource |-> section.remoteSource,
             destinationCode |-> section.destinationCode,
             checkIn |-> checkIn, checkOut |-> checkOut,
             tripAdvisorRating |-> section.tripAdvisorRating,
             tripAdvisorReviews |-> IF section.tripAdvisorRating = Absent
                                    THEN Absent ELSE section.tripAdvisorReviews,
             distanceFromAirport |-> section.distance,
             cleaningBadge |-> section.badge])

RECURSIVE ParseSections(_, _, _)
ParseSections(sections, checkIn, checkOut) ==
  IF Len(sections) = 0 THEN <<>>
  ELSE LET hotel == parseHotelSection(sections[1], checkIn, checkOut)
           rest  == ParseSections(Tail(sections), checkIn, checkOut)
       IN IF hotel = Absent THEN rest ELSE <<hotel.v>> \o rest

\* parseSearchHtml: a missing header date becomes the empty string
parseSearchHtml(doc) ==
  LET checkIn  == IF doc.checkIn = Absent THEN <<>> ELSE parseVaxShortDate(doc.checkIn.v)
      checkOut == IF doc.checkOut = Absent THEN <<>> ELSE parseVaxShortDate(doc.checkOut.v)
  IN ParseSections(doc.rows, checkIn, checkOut)

RoomRowKing ==
  [hasWrapper |-> TRUE, code |-> "K", name |-> "King", price |-> Some(45000),
   perPerson |-> Absent, addedValues |-> <<>>, valueIndicators |-> <<>>]

RoomRowQueen ==
  [hasWrapper |-> TRUE, code |-> "Q", name |-> "Queen", price |-> Absent,
   perPerson |-> Some(22500), addedValues |-> <<"$150 credit">>,
   valueIndicators |-> <<"Upgrade Bonus">>]

RoomRowNoise ==
  [hasWrapper |-> TRUE, code |-> "", name |-> "", price |-> Absent,
   perPerson |-> Absent, addedValues |-> <<>>, valueIndicators |-> <<>>]

SectionAlpha ==
  [hasInfo |-> TRUE, name |-> "Alpha", hotelId |-> "101", vendor |-> "AV1",
   remoteSource |-> "HBSHotel", destinationCode |-> "LAS", ratingMarkers |-> 4,
   tripAdvisorRating |-> Some(45), tripAdvisorReviews |-> Some(1200),
   location |-> "Strip", distance |-> Some(3), badge |-> Absent,
   roomRows |-> <<RoomRowKing, RoomRowNoise, RoomRowQueen>>]

SectionBravo ==
  [hasInfo |-> TRUE, name |-> "Bravo", hotelId |-> "202", vendor |-> "FJ1",
   remoteSource |-> "HBSHotel", destinationCode |-> "LAS", ratingMarkers |-> 0,
   tripAdvisorRating |-> Absent, tripAdvisorReviews |-> Absent,
   location |-> "", distance |-> Absent, badge |-> Some("CLEAN"),
   roomRows |-> <<RoomRowQueen>>]

SectionNameless ==
  [hasInfo |-> TRUE, name |-> "", hotelId |-> "", vendor |-> "",
   remoteSource |-> "", destinationCode |-> "", ratingMarkers |-> 0,
   tripAdvisorRating |-> Absent, tripAdvisorReviews |-> Absent,
   location |-> "", distance |-> Absent, badge |-> Absent,
   roomRows |-> <<RoomRowKing>>]

\* the header groups "10JAN26" and "17JAN26"
ShortCheckIn == <<"1", "0", "J", "A", "N", "2", "6">>

ShortCheckOut == <<"1", "7", "J", "A", "N", "2", "6">>

DocAlpha ==
  [checkIn |-> Some(ShortCheckIn), checkOut |-> Some(ShortCheckOut),
   rows |-> <<SectionAlpha, SectionNameless>>]

DocBravo ==
  [checkIn |-> Some(ShortCheckIn), checkOut |-> Some(ShortCheckOut),
   rows |-> <<SectionBravo>>]

DocNoHeader ==
  [checkIn |-> Absent, checkOut |-> Absent, rows |-> <<SectionBravo>>]

DocPool == {DocAlpha, DocBravo, DocNoHeader}

\* the month abbreviations of the upstream short dates, January first
MonthAbbrevs ==
  <<(<<"J", "A", "N">>), (<<"F", "E", "B">>), (<<"M", "A", "R">>), (<<"A", "P", "R">>),
    (<<"M", "A", "Y">>), (<<"J", "U", "N">>), (<<"J", "U", "L">>), (<<"A", "U", "G">>),
    (<<"S", "E", "P">>), (<<"O", "C", "T">>), (<<"N", "O", "V">>), (<<"D", "E", "C">>)>>

\* the DDMMMYY string of a day, a month number and a two-digit year
ShortDateString(dd, mon, yy) == PadNum(dd, 2) \o MonthAbbrevs[mon] \o PadNum(yy, 2)

\* the documents the extraction is applied to: each header date present or
\* missing, up to ExtractMaxRows hotel boundary rows
ExtractDocs ==
  [checkIn : {Absent, Some(ShortCheckIn)}, checkOut : {Absent, Some(ShortCheckOut)},
   rows : UNION {[1..n -> {SectionAlpha, SectionBravo, SectionNameless}] :
                   n \in 0..ExtractMaxRows}]

\* ------------------------------------------------------------------------
\* State
\* ------------------------------------------------------------------------
VARIABLES
  db,            \* the SearchCache / Hotel / Room tables
  now,           \* wall clock, in hours
  put,           \* per caller: the saveSearchResultsToCache call it is in
  puts,          \* saveSearchResultsToCache calls started so far
  lastPut,       \* per cache key: the hotel list of the last successful put
  deletedSince,  \* per cache key: a deleteMany ran since the last successful put
  lastGet,       \* the last getCachedSearchResults call of a concurrent reader
  gets,          \* getCachedSearchResults calls observed so far
  session,       \* VaxClient.session
  cookieJar,     \* VaxClient.cookieJar: the cookie names it holds
  sessionFile,   \* the Session Store record of the configured identity
  responseFiles, \* ResponseStorage: method name -> stored response
  pc,            \* where the searchAllVendors call of the client stands
  calls,         \* searchAllVendors calls started so far
  call,          \* the locals of the running searchAllVendors call
  inFlight,      \* upstream search requests issued and not yet answered
  posts,         \* every search POST sent: the call's params and the body
  args,          \* the arguments a pure function is applied to
  out,           \* what the function returned for them
  searchRequest, \* the SearchRequest table: request id -> row
  proc,          \* per request: where its processSearch stands, its search, its timer
  creating,      \* per caller: the createSearchRequest call between findUnique and create
  emitted        \* SearchService.emitter: per request, the updates emitted so far

cacheVars == <<put, puts, lastPut, deletedSince, lastGet, gets>>

clientVars == <<session, cookieJar, sessionFile, responseFiles, pc, calls, call,
                inFlight, posts>>

pureVars == <<args, out>>

serviceVars == <<searchRequest, proc, creating, emitted>>

vars == <<db, now, put, puts, lastPut, deletedSince, lastGet, gets,
          session, cookieJar, sessionFile, responseFiles, pc, calls, call,
          inFlight, posts, args, out, searchRequest, proc, creating,
          emitted>>

\* no function under study
NoArgs == [none |-> TRUE]

\* the function has not returned yet
NoOut == [none |-> TRUE]

\* ------------------------------------------------------------------------
\* Result cache: concurrent callers of saveSearchResultsToCache and a reader
\* ------------------------------------------------------------------------
Callers == {1, 2}

NoPut == [has |-> FALSE]

NoGet == [none |-> TRUE]

IdlePut == [pc |-> "idle", params |-> ParamsATL, hotels |-> <<>>, hadEntry |-> FALSE]

\* saveSearchResultsToCache is called: the key is computed
CachePutStart(c, params, hotels) ==
  /\ put[c].pc \in {"idle", "ok", "failed"}
  /\ puts < MaxPuts
  /\ puts' = puts + 1
  /\ put' = [put EXCEPT ![c] = [pc |-> "delete", params |-> params,
                                hotels |-> hotels, hadEntry |-> FALSE]]
  /\ UNCHANGED <<db, now, lastPut, deletedSince, lastGet, gets>>
  /\ UNCHANGED clientVars
  /\ UNCHANGED pureVars
  /\ UNCHANGED serviceVars

\* await prisma.searchCache.deleteMany(...): resolves, or rejects on a store failure
CachePutDelete(c, fault) ==
  /\ put[c].pc = "delete"
  /\ LET key == generateSearchCacheKey(put[c].params)
     IN IF fault
        THEN /\ put' = [put EXCEPT ![c].pc = "failed"]
             /\ UNCHANGED <<db, deletedSince>>
        ELSE /\ db' = DeleteMany(db, key)
             /\ deletedSince' = [deletedSince EXCEPT ![key] = TRUE]
             /\ put' = [put EXCEPT ![c].pc = "create",
                                   ![c].hadEntry = KeyPresent(db, key)]
  /\ UNCHANGED <<now, puts, lastPut, lastGet, gets>>
  /\ UNCHANGED clientVars
  /\ UNCHANGED pureVars
  /\ UNCHANGED serviceVars

\* prisma.searchCache.create(...) resolves
CreateSucceeds(d, params, hotels, fault) ==
  /\ ~fault
  /\ CreateArgsValid(params, hotels)
  /\ ~KeyPresent(d, generateSearchCacheKey(params))

\* await prisma.searchCache.create(...): resolves, or rejects (invalid DateTime,
\* unique constraint on cacheKey, store failure) and the error is rethrown
CachePutCreate(c, fault) ==
  /\ put[c].pc = "create"
  /\ LET key == generateSearchCacheKey(put[c].params)
     IN IF CreateSucceeds(db, put[c].params, put[c].hotels, fault)
        THEN /\ db' = Create(db, put[c].params, put[c].hotels, now)
             /\ lastPut' = [lastPut EXCEPT ![key] = Some(put[c].hotels)]
             /\ deletedSince' = [deletedSince EXCEPT ![key] = FALSE]
             /\ put' = [put EXCEPT ![c].pc = "ok"]
        ELSE /\ put' = [put EXCEPT ![c].pc = "failed"]
             /\ UNCHANGED <<db, lastPut, deletedSince>>
  /\ UNCHANGED <<now, puts, lastGet, gets>>
  /\ UNCHANGED clientVars
  /\ UNCHANGED pureVars
  /\ UNCHANGED serviceVars

\* a put of this key deleted an existing entry and has not yet inserted the new one
MidReplace(key) ==
  \E c \in Callers :
    /\ put[c].pc = "create" /\ put[c].hadEntry
    /\ generateSearchCacheKey(put[c].params) = key

\* getCachedSearchResults(params) by a concurrent reader
CacheGet(params, fault) ==
  /\ gets < MaxGets
  /\ gets' = gets + 1
  /\ LET key == generateSearchCacheKey(params)
     IN lastGet' = [none |-> FALSE, params |-> params,
                    result |-> getCachedSearchResults(db, params, fault),
                    fault |-> fault,
                    malformed |-> EntryMalformed(db, key),
                    want |-> lastPut[key],
                    deletedSince |-> deletedSince[key],
                    midReplace |-> MidReplace(key)]
  /\ UNCHANGED <<db, now, put, puts, lastPut, deletedSince>>
  /\ UNCHANGED clientVars
  /\ UNCHANGED pureVars
  /\ UNCHANGED serviceVars

CacheNext ==
  \/ \E c \in Callers, p \in CacheParams, hs \in HotelListPool : CachePutStart(c, p, hs)
  \/ \E c \in Callers, f \in BOOLEAN : CachePutDelete(c, f)
  \/ \E c \in Callers, f \in BOOLEAN : CachePutCreate(c, f)
  \/ \E p \in CacheParams, f \in BOOLEAN : CacheGet(p, f)

\* ------------------------------------------------------------------------
\* VaxClient: login, per-vendor search and searchAllVendors
\* ------------------------------------------------------------------------
\* SESSION_TTL_HOURS default
sessionTTL == 2

\* the vendor codes the search surface can offer, sorted by code
AllVendors == <<"AV1", "FJ1", "UV1", "WN1">>

VendorListPool == {SubSeq(AllVendors, 1, n) : n \in 0..MaxVendors}

ResponseNames == {<<kind, v>> : kind \in {"vax_search_get", "vax_search_post"},
                                v \in {AllVendors[i] : i \in 1..Len(AllVendors)}}

\* the parameter sets searchAllVendors is called with
SearchParams == {ParamsATL, ParamsTwoRooms}

NoSession == [has |-> FALSE]

\* what loadSession returns: null, or the data of the record
LoadMiss == [found |-> FALSE]

LoadHit(data) == [found |-> TRUE, data |-> data]

\* no loadSession call made yet
NoLoad == [none |-> TRUE]

\* the data saveSession() stores in a record
StoredPayload(rec) == [cookies |-> rec.cookies, loginTime |-> rec.loginTime]

\* what login() returns
NoLoginRet == [set |-> FALSE]

LoginSuccess(cookies) == [set |-> TRUE, success |-> TRUE, sessionCookies |-> cookies]

LoginFailure == [set |-> TRUE, success |-> FALSE]

\* the hidden inputs getLoginPageTokens() looks for
TokenNames == {"__VIEWSTATE", "__VIEWSTATEGENERATOR", "__EVENTVALIDATION"}

\* answers to the GET of the login page: the complete form, the form with
\* one hidden input missing, and a failed request
LoginPages ==
  {[status |-> "ok", tokens |-> TokenNames]}
    \cup {[status |-> "ok", tokens |-> TokenNames \ {t}] : t \in TokenNames}
    \cup {[status |-> "error", tokens |-> {}]}

\* a URL as its host labels and the rest, and the string the header carries
UrlString(u) == <<"https://">> \o u.host \o u.rest

\* String.prototype.includes over the pieces of a string
Includes(str, piece) == \E i \in 1..Len(str) : str[i] = piece

\* the host of the URL lies in the post-login domain
OnPostLoginDomain(u) == u.host[Len(u.host)] = "vaxvacationaccess.com"

\* the application front page the login form asks to be sent to
UrlApp == [host |-> <<"www.", "vaxvacationaccess.com">>, rest |-> <<"/">>]

\* a page of another site
UrlForeign == [host |-> <<"sso.", "example.net">>, rest |-> <<"/signin">>]

\* a page of another site whose query string carries the return address
UrlForeignReturn ==
  [host |-> <<"sso.", "example.net">>,
   rest |-> <<"/signin?return=https://www.", "vaxvacationaccess.com", "/">>]

\* answers to the login POST
LoginResponses ==
  {[status |-> 302, location |-> Some(UrlApp), body |-> "moved"],
   [status |-> 302, location |-> Absent, body |-> "moved"],
   [status |-> 302, location |-> Some(UrlForeign), body |-> "moved"],
   [status |-> 302, location |-> Some(UrlForeignReturn), body |-> "moved"],
   [status |-> 200, location |-> Absent, body |-> "Invalid credentials"],
   [status |-> 200, location |-> Absent, body |-> "welcome"],
   [status |-> 500, location |-> Absent, body |-> "error"]}

NoResult == [set |-> FALSE]

Result(success, hotels) == [set |-> TRUE, success |-> success, hotels |-> hotels]

NoCall ==
  [params |-> ParamsATL, vendors |-> <<>>, vi |-> 0, allHotels |-> <<>>,
   result |-> NoResult, vres |-> <<>>, searched |-> {}, listed |-> FALSE,
   netReqs |-> 0, delayed |-> {}, lastReqVi |-> 0, delaySince |-> FALSE,
   undelayed |-> FALSE, loginRes |-> "none", entryAtStart |-> Miss,
   saved |-> FALSE, saveFailed |-> FALSE, page |-> Absent,
   kind |-> "search", loginRet |-> NoLoginRet, load |-> NoLoad,
   loginPage |-> Absent, resp |-> Absent, posted |-> FALSE, followed |-> FALSE,
   storeReads |-> 0, sessionAtStart |-> NoSession, parsed |-> {},
   cacheFault |-> FALSE]

\* isLoggedIn() answering false whatever the instance holds
isLoggedInNever == FALSE

\* isLoggedIn()
isLoggedIn == session # NoSession

\* ensureLoggedIn() at the top of searchAllVendors(params)
SearchAllVendorsStart(params) ==
  /\ pc \in {"idle", "done"}
  /\ calls < MaxCalls
  /\ calls' = calls + 1
  /\ call' = [NoCall EXCEPT !.params = params,
                            !.entryAtStart = getCachedSearchResults(db, params, FALSE)]
  /\ pc' = IF isLoggedIn THEN "cache" ELSE "login_restore"
  /\ UNCHANGED <<db, now, session, cookieJar, sessionFile, responseFiles, inFlight, posts>>
  /\ UNCHANGED cacheVars
  /\ UNCHANGED pureVars
  /\ UNCHANGED serviceVars

\* fs.unlink of the record file
deleteSession(file) == Absent

\* loadSession without the expiry test
loadSessionNeverExpires(file, t) ==
  IF file = Absent THEN [ret |-> LoadMiss, file |-> Absent]
  ELSE [ret |-> LoadHit(StoredPayload(file.v)), file |-> file]

\* SessionStorage.loadSession(sessionId) at time t: what it returns and the
\* record it leaves
loadSession(file, t) ==
  IF file = Absent THEN [ret |-> LoadMiss, file |-> Absent]
  ELSE IF t > file.v.expiresAt THEN [ret |-> LoadMiss, file |-> deleteSession(file)]
  ELSE [ret |-> LoadHit(StoredPayload(file.v)), file |-> file]

\* restoreSession() returns false whatever loadSession returned
RestoredNever(ret) == FALSE

\* restoreSession(): if (!sessionData) return false; otherwise true
Restored(ret) == ret # LoadMiss

\* where the caller of login() goes on: searchAllVendors, or the caller of
\* the client
LoginReturnPc(c) == IF c.kind = "search" THEN "cache" ELSE "done"

\* login(): restoreSession() through SessionStorage.loadSession()
LoginRestore ==
  /\ pc = "login_restore"
  /\ LET r == loadSession(sessionFile, now)
         c == [call EXCEPT !.storeReads = @ + 1,
                           !.load = [none |-> FALSE, before |-> sessionFile, at |-> now,
                                     ret |-> r.ret, after |-> r.file]]
     IN /\ sessionFile' = r.file
        /\ IF ~Restored(r.ret)
           THEN /\ pc' = "login_get"
                /\ call' = c
                /\ UNCHANGED <<session, cookieJar>>
           ELSE /\ session' = [has |-> TRUE, cookies |-> r.ret.data.cookies,
                               loginTime |-> r.ret.data.loginTime]
                /\ cookieJar' = cookieJar \cup r.ret.data.cookies
                /\ call' = [c EXCEPT !.loginRes = "ok",
                                     !.loginRet = LoginSuccess(r.ret.data.cookies)]
                /\ pc' = LoginReturnPc(call)
  /\ UNCHANGED <<db, now, responseFiles, calls, inFlight, posts>>
  /\ UNCHANGED cacheVars
  /\ UNCHANGED pureVars
  /\ UNCHANGED serviceVars

\* only __VIEWSTATE is required of the login page
HasAllTokensViewStateOnly(page) == "__VIEWSTATE" \in page.tokens

\* if (!viewStateMatch || !viewStateGeneratorMatch || !eventValidationMatch) throw
HasAllTokens(page) == TokenNames \subseteq page.tokens

\* login(): getLoginPageTokens(), the GET of the login page; a failed GET or a
\* missing token throws into login's catch
LoginGetTokens(page) ==
  /\ pc = "login_get"
  /\ LET ok == page.status = "ok" /\ HasAllTokens(page)
     IN /\ call' = [call EXCEPT !.netReqs = @ + 1,
                                !.loginPage = Some(page),
                                !.loginRes = IF ok THEN @ ELSE "failed",
                                !.loginRet = IF ok THEN @ ELSE LoginFailure]
        /\ pc' = IF ok THEN "login_post" ELSE LoginReturnPc(call)
  /\ cookieJar' = IF page.status = "error" THEN cookieJar ELSE cookieJar \cup {"login"}
  /\ UNCHANGED <<db, now, session, sessionFile, responseFiles, calls, inFlight, posts>>
  /\ UNCHANGED cacheVars
  /\ UNCHANGED pureVars
  /\ UNCHANGED serviceVars

\* the Location header names a URL of the post-login domain
IsLoginRedirectToDomain(resp) ==
  /\ resp.status >= 300 /\ resp.status < 400
  /\ resp.location # Absent
  /\ OnPostLoginDomain(resp.location.v)

\* isRedirect && redirectUrl?.includes("vaxvacationaccess.com")
IsLoginRedirect(resp) ==
  /\ resp.status >= 300 /\ resp.status < 400
  /\ resp.location # Absent
  /\ Includes(UrlString(resp.location.v), "vaxvacationaccess.com")

\* login(): the POST of the login form, redirects not followed; a status of
\* 400 or more throws into login's catch
LoginPost(resp) ==
  /\ pc = "login_post"
  /\ LET ok == IsLoginRedirect(resp)
     IN /\ call' = [call EXCEPT !.netReqs = @ + 1,
                                !.posted = TRUE,
                                !.resp = Some(resp),
                                !.loginRes = IF ok THEN @ ELSE "failed",
                                !.loginRet = IF ok THEN @ ELSE LoginFailure]
        /\ pc' = IF ok THEN "login_redirect" ELSE LoginReturnPc(call)
  /\ cookieJar' = IF resp.status >= 400 THEN cookieJar ELSE cookieJar \cup {"auth"}
  /\ UNCHANGED <<db, now, session, sessionFile, responseFiles, calls, inFlight, posts>>
  /\ UNCHANGED cacheVars
  /\ UNCHANGED pureVars
  /\ UNCHANGED serviceVars

\* login(): the manual GET of the redirect target, then session and saveSession()
LoginFollowRedirect(ok) ==
  /\ pc = "login_redirect"
  /\ LET jar == IF ok THEN cookieJar \cup {"app"} ELSE cookieJar
     IN /\ cookieJar' = jar
        /\ session' = [has |-> TRUE, cookies |-> jar, loginTime |-> now]
        /\ sessionFile' = Some([cookies |-> jar, loginTime |-> now,
                                expiresAt |-> now + sessionTTL])
        /\ call' = [call EXCEPT !.netReqs = @ + 1, !.loginRes = "ok",
                                !.followed = TRUE,
                                !.loginRet = LoginSuccess(jar)]
  /\ pc' = LoginReturnPc(call)
  /\ UNCHANGED <<db, now, responseFiles, calls, inFlight, posts>>
  /\ UNCHANGED cacheVars
  /\ UNCHANGED pureVars
  /\ UNCHANGED serviceVars

\* if (cachedResults && cachedResults.length > 0)
IsCacheHitNonEmpty(cached) == cached # Miss /\ Len(cached.hotels) > 0

\* if (cachedResults): every array, the empty one too, is truthy
IsCacheHit(cached) == cached # Miss

\* searchAllVendors: getCachedSearchResults(params); a hit is returned
CacheCheck(fault) ==
  /\ pc = "cache"
  /\ LET cached == getCachedSearchResults(db, call.params, fault)
     IN IF IsCacheHit(cached)
        THEN /\ call' = [call EXCEPT !.result = Result(TRUE, cached.hotels),
                                     !.cacheFault = fault]
             /\ pc' = "done"
        ELSE /\ pc' = "vendors"
             /\ call' = [call EXCEPT !.cacheFault = fault]
  /\ UNCHANGED <<db, now, session, cookieJar, sessionFile, responseFiles, calls,
                 inFlight, posts>>
  /\ UNCHANGED cacheVars
  /\ UNCHANGED pureVars
  /\ UNCHANGED serviceVars

\* searchAllVendors: extractLiveVendors(); a failure ends the call unsuccessfully
ExtractLiveVendors(ok, list) ==
  /\ pc = "vendors"
  /\ IF ok
     THEN /\ call' = [call EXCEPT !.netReqs = @ + 1, !.vendors = list, !.listed = TRUE,
                                  !.vi = IF Len(list) > 0 THEN 1 ELSE 0]
          /\ pc' = IF Len(list) > 0 THEN "vendor" ELSE "save_delete"
     ELSE /\ call' = [call EXCEPT !.netReqs = @ + 1, !.result = Result(FALSE, <<>>)]
          /\ pc' = "done"
  /\ UNCHANGED <<db, now, session, cookieJar, sessionFile, responseFiles, calls,
                 inFlight, posts>>
  /\ UNCHANGED cacheVars
  /\ UNCHANGED pureVars
  /\ UNCHANGED serviceVars

\* ResponseStorage.generateFilename(methodName), on one calendar day
generateFilename(kind, vendor) == <<kind, vendor>>

\* the request body of search(): the page's hidden fields, the protocol keys
\* and the business fields
SearchBody(params, vendor, page) ==
  [hidden |-> page.viewState, sm |-> page.sm, ReservationToolType |-> "SingleStop",
   vendor |-> vendor, package |-> "H02",
   Origin |-> "Atlanta, Georgia (ATL)", Destination |-> "Las Vegas, Nevada (LAS)",
   departure |-> "10JAN26", numberOfNights |-> 7, return |-> "17JAN26",
   numrooms |-> 1, adults |-> 2, children |-> 0,
   hotelcheckin |-> "10JAN26", hotelcheckout |-> "17JAN26"]

\* allHotels.unshift(...hotels) in place of the push
PushAllInFront(all, hotels) == hotels \o all

\* allHotels.push(...searchResponse.hotels)
PushAll(all, hotels) == all \o hotels

\* the step of the vendor loop after vendor call.vi has been searched
AfterVendor(c, success, hotels) ==
  LET c1 == [c EXCEPT !.vres = Append(@, [success |-> success, hotels |-> hotels]),
                      !.allHotels = IF success THEN PushAll(@, hotels) ELSE @]
      last == c.vi = Len(c.vendors)
  IN IF success /\ ~last THEN [pc |-> "delay", call |-> c1]
     ELSE IF ~last THEN [pc |-> "vendor", call |-> [c1 EXCEPT !.vi = @ + 1]]
     ELSE [pc |-> "save_delete", call |-> c1]

\* a search request for vendor call.vi goes out
RequestIssued(c) ==
  [c EXCEPT !.netReqs = @ + 1,
            !.undelayed = @ \/ (c.lastReqVi \notin {0, c.vi} /\ ~c.delaySince),
            !.lastReqVi = c.vi,
            !.delaySince = FALSE]

\* await client.get / client.post returned without the request being awaited
AwaitedNotAwaited(flight, req) == flight

\* await client.get / client.post: the request is no longer in flight
Awaited(flight, req) == flight \ {req}

\* search(): with the search page in hand, build the body and read the stored
\* POST response or send the POST
SearchWithPage(c, page, flight) ==
  LET vendor == c.vendors[c.vi]
      stored == responseFiles[generateFilename("vax_search_post", vendor)]
      c1     == [c EXCEPT !.page = Some(page)]
  IN IF stored # Absent
     THEN LET c2  == [c1 EXCEPT !.parsed = @ \cup {<<c.vi, stored.v.doc, stored.v.call>>}]
              nxt == AfterVendor(c2, TRUE, parseSearchHtml(stored.v.doc))
          IN /\ pc' = nxt.pc
             /\ call' = nxt.call
             /\ inFlight' = flight
             /\ UNCHANGED posts
     ELSE /\ pc' = "post_wait"
          /\ call' = RequestIssued(c1)
          /\ inFlight' = flight \cup {<<c.vi, "post">>}
          /\ posts' = posts \cup {[params |-> c.params, call |-> calls,
                                   body |-> SearchBody(c.params, vendor, page)]}

\* searchAllVendors: search(vendorParams) is called for the next vendor
VendorSearch ==
  /\ pc = "vendor"
  /\ LET c == [call EXCEPT !.searched = @ \cup {call.vi}]
         vendor == call.vendors[call.vi]
         stored == responseFiles[generateFilename("vax_search_get", vendor)]
     IN IF ~isLoggedIn
        THEN LET nxt == AfterVendor(c, FALSE, <<>>)
             IN pc' = nxt.pc /\ call' = nxt.call /\ UNCHANGED <<inFlight, posts>>
        ELSE IF stored # Absent
        THEN SearchWithPage(c, stored.v, inFlight)
        ELSE /\ pc' = "get_wait"
             /\ call' = RequestIssued(c)
             /\ inFlight' = inFlight \cup {<<call.vi, "get">>}
             /\ UNCHANGED posts
  /\ UNCHANGED <<db, now, session, cookieJar, sessionFile, responseFiles, calls>>
  /\ UNCHANGED cacheVars
  /\ UNCHANGED pureVars
  /\ UNCHANGED serviceVars

\* search(): the GET of the search surface returns or fails
SearchGetReturns(ok) ==
  /\ pc = "get_wait"
  /\ LET vendor == call.vendors[call.vi]
         flight == Awaited(inFlight, <<call.vi, "get">>)
         page   == [viewState |-> calls, sm |-> "sm"]
     IN IF ok
        THEN /\ responseFiles' =
                  [responseFiles EXCEPT ![generateFilename("vax_search_get", vendor)] =
                                           Some(page)]
             /\ SearchWithPage(call, page, flight)
        ELSE LET nxt == AfterVendor(call, FALSE, <<>>)
             IN /\ pc' = nxt.pc
                /\ call' = nxt.call
                /\ inFlight' = flight
                /\ UNCHANGED <<responseFiles, posts>>
  /\ UNCHANGED <<db, now, session, cookieJar, sessionFile, calls>>
  /\ UNCHANGED cacheVars
  /\ UNCHANGED pureVars
  /\ UNCHANGED serviceVars

\* search(): the POST returns a document, which is stored and parsed, or fails
SearchPostReturns(ok, doc) ==
  /\ pc = "post_wait"
  /\ LET vendor == call.vendors[call.vi]
         c   == [call EXCEPT !.parsed = @ \cup {<<call.vi, doc, calls>>}]
         nxt == IF ok THEN AfterVendor(c, TRUE, parseSearchHtml(doc))
                ELSE AfterVendor(call, FALSE, <<>>)
     IN /\ pc' = nxt.pc
        /\ call' = nxt.call
        /\ inFlight' = Awaited(inFlight, <<call.vi, "post">>)
        /\ responseFiles' =
             IF ok
             THEN [responseFiles EXCEPT ![generateFilename("vax_search_post", vendor)] =
                                           Some([doc |-> doc, call |-> calls])]
             ELSE responseFiles
  /\ UNCHANGED <<db, now, session, cookieJar, sessionFile, calls, posts>>
  /\ UNCHANGED cacheVars
  /\ UNCHANGED pureVars
  /\ UNCHANGED serviceVars

\* searchAllVendors: the 2 second wait after a successful vendor that is not the last
VendorDelay ==
  /\ pc = "delay"
  /\ call' = [call EXCEPT !.delayed = @ \cup {call.vi}, !.delaySince = TRUE,
                          !.vi = @ + 1]
  /\ pc' = "vendor"
  /\ UNCHANGED <<db, now, session, cookieJar, sessionFile, responseFiles, calls,
                 inFlight, posts>>
  /\ UNCHANGED cacheVars
  /\ UNCHANGED pureVars
  /\ UNCHANGED serviceVars

\* saveSearchResultsToCache inside searchAllVendors: the deleteMany
SaveDelete(fault) ==
  /\ pc = "save_delete"
  /\ LET key == generateSearchCacheKey(call.params)
     IN IF fault
        THEN /\ call' = [call EXCEPT !.saveFailed = TRUE, !.result = Result(FALSE, <<>>)]
             /\ pc' = "done"
             /\ UNCHANGED <<db, deletedSince>>
        ELSE /\ db' = DeleteMany(db, key)
             /\ deletedSince' = [deletedSince EXCEPT ![key] = TRUE]
             /\ pc' = "save_create"
             /\ UNCHANGED call
  /\ UNCHANGED <<now, session, cookieJar, sessionFile, responseFiles, calls,
                 inFlight, posts>>
  /\ UNCHANGED <<put, puts, lastPut, lastGet, gets>>
  /\ UNCHANGED pureVars
  /\ UNCHANGED serviceVars

\* saveSearchResultsToCache inside searchAllVendors: the create, whose error
\* is rethrown and caught by searchAllVendors
SaveCreate(fault) ==
  /\ pc = "save_create"
  /\ LET key == generateSearchCacheKey(call.params)
     IN IF CreateSucceeds(db, call.params, call.allHotels, fault)
        THEN /\ db' = Create(db, call.params, call.allHotels, now)
             /\ lastPut' = [lastPut EXCEPT ![key] = Some(call.allHotels)]
             /\ deletedSince' = [deletedSince EXCEPT ![key] = FALSE]
             /\ call' = [call EXCEPT !.saved = TRUE,
                                     !.result = Result(TRUE, call.allHotels)]
        ELSE /\ call' = [call EXCEPT !.saveFailed = TRUE, !.result = Result(FALSE, <<>>)]
             /\ UNCHANGED <<db, lastPut, deletedSince>>
  /\ pc' = "done"
  /\ UNCHANGED <<now, session, cookieJar, sessionFile, responseFiles, calls,
                 inFlight, posts>>
  /\ UNCHANGED <<put, puts, lastGet, gets>>
  /\ UNCHANGED pureVars
  /\ UNCHANGED serviceVars

\* an hour passes between two calls while a Session Store record ages
Tick ==
  /\ pc \in {"idle", "done"}
  /\ sessionFile # Absent
  /\ now < MaxTime
  /\ now' = now + 1
  /\ UNCHANGED db
  /\ UNCHANGED clientVars
  /\ UNCHANGED cacheVars
  /\ UNCHANGED pureVars
  /\ UNCHANGED serviceVars

\* new VaxClient(): a fresh instance, the stores on disk stay
NewClient ==
  /\ pc = "done"
  /\ session # NoSession
  /\ session' = NoSession
  /\ cookieJar' = {}
  /\ pc' = "idle"
  /\ call' = NoCall
  /\ UNCHANGED <<db, now, sessionFile, responseFiles, calls, inFlight, posts>>
  /\ UNCHANGED cacheVars
  /\ UNCHANGED pureVars
  /\ UNCHANGED serviceVars

\* the entry an earlier run of searchAllVendors(ParamsATL) left in the cache
SeedHotels == parseSearchHtml(DocAlpha)

\* the entry an earlier search left when every vendor failed
SeedEmptyDb == Create(EmptyDb, ParamsATL, <<>>, 0)

SeedDbs == {EmptyDb, Create(EmptyDb, ParamsATL, SeedHotels, 0), SeedEmptyDb}

\* the record an earlier process saved at login
SeedSessionFiles ==
  {Absent, Some([cookies |-> {"login", "auth", "app"}, loginTime |-> 0,
                 expiresAt |-> sessionTTL])}

\* the responses an earlier search of the first vendor stored the same day:
\* none, the search page alone (its POST failed), or both
SeedResponseFiles ==
  {[n \in ResponseNames |-> Absent],
   [n \in ResponseNames |->
      IF n = <<"vax_search_get", AllVendors[1]>> THEN Some([viewState |-> 0, sm |-> "sm"])
      ELSE Absent],
   [n \in ResponseNames |->
      IF n = <<"vax_search_get", AllVendors[1]>> THEN Some([viewState |-> 0, sm |-> "sm"])
      ELSE IF n = <<"vax_search_post", AllVendors[1]>>
      THEN Some([doc |-> DocBravo, call |-> 0])
      ELSE Absent]}

\* a fresh VaxClient; the cache, the Session Store and the response files are
\* empty or hold what an earlier process wrote
Init ==
  /\ now = 0
  /\ db \in SeedDbs
  /\ put = [c \in Callers |-> IdlePut]
  /\ puts = 0
  /\ lastPut = [k \in KeyPool |->
                  IF ~KeyPresent(db, k) THEN NoPut
                  ELSE IF db = SeedEmptyDb THEN Some(<<>>) ELSE Some(SeedHotels)]
  /\ deletedSince = [k \in KeyPool |-> FALSE]
  /\ lastGet = NoGet
  /\ gets = 0
  /\ session = NoSession
  /\ cookieJar = {}
  /\ sessionFile \in SeedSessionFiles
  /\ responseFiles \in SeedResponseFiles
  /\ pc = "idle"
  /\ calls = 0
  /\ call = NoCall
  /\ inFlight = {}
  /\ posts = {}
  /\ searchRequest = <<>>
  /\ proc = <<>>
  /\ creating = [c \in Callers |-> Absent]
  /\ emitted = <<>>
  /\ args = NoArgs
  /\ out = NoOut

Next ==
  \/ \E p \in SearchParams : SearchAllVendorsStart(p)
  \/ LoginRestore
  \/ \E page \in LoginPages : LoginGetTokens(page)
  \/ \E resp \in LoginResponses : LoginPost(resp)
  \/ \E ok \in BOOLEAN : LoginFollowRedirect(ok)
  \/ \E f \in BOOLEAN : CacheCheck(f)
  \/ \E ok \in BOOLEAN, l \in VendorListPool : ExtractLiveVendors(ok, l)
  \/ VendorSearch
  \/ \E ok \in BOOLEAN : SearchGetReturns(ok)
  \/ \E ok \in BOOLEAN, d \in DocPool : SearchPostReturns(ok, d)
  \/ VendorDelay
  \/ \E f \in BOOLEAN : SaveDelete(f)
  \/ \E f \in BOOLEAN : SaveCreate(f)
  \/ Tick
  \/ NewClient

Spec == Init /\ [][Next]_vars

\* the cache on its own: an empty database and no client activity
CacheInit ==
  /\ now = 0
  /\ db = EmptyDb
  /\ put = [c \in Callers |-> IdlePut]
  /\ puts = 0
  /\ lastPut = [k \in KeyPool |-> NoPut]
  /\ deletedSince = [k \in KeyPool |-> FALSE]
  /\ lastGet = NoGet
  /\ gets = 0
  /\ session = NoSession
  /\ cookieJar = {}
  /\ sessionFile = Absent
  /\ responseFiles = [n \in ResponseNames |-> Absent]
  /\ pc = "idle"
  /\ calls = 0
  /\ call = NoCall
  /\ inFlight = {}
  /\ posts = {}
  /\ searchRequest = <<>>
  /\ proc = <<>>
  /\ creating = [c \in Callers |-> Absent]
  /\ emitted = <<>>
  /\ args = NoArgs
  /\ out = NoOut

SpecCache == CacheInit /\ [][CacheNext]_vars

\* list-column texts no JSON.stringify of an array produces: a truncated
\* array, and the literal null
TruncatedJson == <<"[", "\"", "Free WiFi">>

NullJson == <<"null">>

\* an entry of ParamsATL whose Room rows another writer of the database file
\* left with that text in addedValues
MalformedDb(text) ==
  LET d == Create(EmptyDb, ParamsATL, <<HotelA>>, 0)
  IN [d EXCEPT !.room = {[r EXCEPT !.addedValues = text] : r \in d.room}]

\* the cache on its own, over a database file holding a malformed entry
CacheStoredInit ==
  /\ now = 0
  /\ db \in {MalformedDb(TruncatedJson), MalformedDb(NullJson)}
  /\ put = [c \in Callers |-> IdlePut]
  /\ puts = 0
  /\ lastPut = [k \in KeyPool |-> NoPut]
  /\ deletedSince = [k \in KeyPool |-> FALSE]
  /\ lastGet = NoGet
  /\ gets = 0
  /\ session = NoSession
  /\ cookieJar = {}
  /\ sessionFile = Absent
  /\ responseFiles = [n \in ResponseNames |-> Absent]
  /\ pc = "idle"
  /\ calls = 0
  /\ call = NoCall
  /\ inFlight = {}
  /\ posts = {}
  /\ searchRequest = <<>>
  /\ proc = <<>>
  /\ creating = [c \in Callers |-> Absent]
  /\ emitted = <<>>
  /\ args = NoArgs
  /\ out = NoOut

SpecCacheStored == CacheStoredInit /\ [][CacheNext]_vars

\* ------------------------------------------------------------------------
\* VaxClient on its own: login(), ensureLoggedIn() and logout() called directly
\* ------------------------------------------------------------------------
\* login() is called
LoginStart ==
  /\ pc \in {"idle", "done"}
  /\ calls < MaxAuthCalls
  /\ calls' = calls + 1
  /\ call' = [NoCall EXCEPT !.kind = "login", !.sessionAtStart = session]
  /\ pc' = "login_restore"
  /\ UNCHANGED <<db, now, session, cookieJar, sessionFile, responseFiles, inFlight, posts>>
  /\ UNCHANGED cacheVars
  /\ UNCHANGED pureVars
  /\ UNCHANGED serviceVars

\* ensureLoggedIn(): if (!this.isLoggedIn()) await this.login()
EnsureLoggedInStart ==
  /\ pc \in {"idle", "done"}
  /\ calls < MaxAuthCalls
  /\ calls' = calls + 1
  /\ call' = [NoCall EXCEPT !.kind = "ensure", !.sessionAtStart = session]
  /\ pc' = IF isLoggedIn THEN "done" ELSE "login_restore"
  /\ UNCHANGED <<db, now, session, cookieJar, sessionFile, responseFiles, inFlight, posts>>
  /\ UNCHANGED cacheVars
  /\ UNCHANGED pureVars
  /\ UNCHANGED serviceVars

\* clearCachedSession(): if (!this.sessionStorage || !this.session) return;
\* otherwise deleteSession(sessionId)
clearCachedSession(sess, file) == IF sess = NoSession THEN file ELSE deleteSession(file)

\* logout(): clearCachedSession(), session = null, cookieJar.clear()
Logout ==
  /\ pc \in {"idle", "done"}
  /\ calls < MaxAuthCalls
  /\ calls' = calls + 1
  /\ sessionFile' = clearCachedSession(session, sessionFile)
  /\ session' = NoSession
  /\ cookieJar' = {}
  /\ call' = [NoCall EXCEPT !.kind = "logout", !.sessionAtStart = session]
  /\ pc' = "done"
  /\ UNCHANGED <<db, now, responseFiles, inFlight, posts>>
  /\ UNCHANGED cacheVars
  /\ UNCHANGED pureVars
  /\ UNCHANGED serviceVars

\* a fresh VaxClient over a Session Store that is empty or holds the record
\* of an earlier login
AuthInit ==
  /\ now = 0
  /\ db = EmptyDb
  /\ put = [c \in Callers |-> IdlePut]
  /\ puts = 0
  /\ lastPut = [k \in KeyPool |-> NoPut]
  /\ deletedSince = [k \in KeyPool |-> FALSE]
  /\ lastGet = NoGet
  /\ gets = 0
  /\ session = NoSession
  /\ cookieJar = {}
  /\ sessionFile \in SeedSessionFiles
  /\ responseFiles = [n \in ResponseNames |-> Absent]
  /\ pc = "idle"
  /\ calls = 0
  /\ call = NoCall
  /\ inFlight = {}
  /\ posts = {}
  /\ searchRequest = <<>>
  /\ proc = <<>>
  /\ creating = [c \in Callers |-> Absent]
  /\ emitted = <<>>
  /\ args = NoArgs
  /\ out = NoOut

AuthNext ==
  \/ LoginStart
  \/ EnsureLoggedInStart
  \/ Logout
  \/ LoginRestore
  \/ \E page \in LoginPages : LoginGetTokens(page)
  \/ \E resp \in LoginResponses : LoginPost(resp)
  \/ \E ok \in BOOLEAN : LoginFollowRedirect(ok)
  \/ Tick
  \/ NewClient

SpecAuth == AuthInit /\ [][AuthNext]_vars

\* ------------------------------------------------------------------------
\* generateSearchCacheKey applied to two parameter sets
\* ------------------------------------------------------------------------
KeyInit ==
  /\ args \in [none : {FALSE}, a : KeyParams, b : KeyParams]
  /\ out = NoOut
  /\ now = 0
  /\ db = EmptyDb
  /\ put = [c \in Callers |-> IdlePut]
  /\ puts = 0
  /\ lastPut = [k \in KeyPool |-> NoPut]
  /\ deletedSince = [k \in KeyPool |-> FALSE]
  /\ lastGet = NoGet
  /\ gets = 0
  /\ session = NoSession
  /\ cookieJar = {}
  /\ sessionFile = Absent
  /\ responseFiles = [n \in ResponseNames |-> Absent]
  /\ pc = "idle"
  /\ calls = 0
  /\ call = NoCall
  /\ inFlight = {}
  /\ posts = {}
  /\ searchRequest = <<>>
  /\ proc = <<>>
  /\ creating = [c \in Callers |-> Absent]
  /\ emitted = <<>>

\* generateSearchCacheKey(a) and generateSearchCacheKey(b)
KeyApply ==
  /\ out = NoOut
  /\ out' = [none |-> FALSE, ka |-> generateSearchCacheKey(args.a),
                             kb |-> generateSearchCacheKey(args.b),
                             sa |-> generateCacheKey(args.a),
                             sb |-> generateCacheKey(args.b)]
  /\ UNCHANGED <<args, db, now>>
  /\ UNCHANGED cacheVars
  /\ UNCHANGED clientVars
  /\ UNCHANGED serviceVars

KeyNext == KeyApply

SpecKey == KeyInit /\ [][KeyNext]_vars

\* ------------------------------------------------------------------------
\* Result cache properties (checked under SpecCache)
\* ------------------------------------------------------------------------
\* the SearchCache rows stored under a key
EntriesOf(key) == {r \in db.searchCache : r.cacheKey = key}

\* the hotelId of every Hotel row of a SearchCache row, in stored order
StoredHotelIds(entry) ==
  LET hrows == RowsInOrder({h \in db.hotel : h.searchCacheId = entry.id})
  IN [i \in 1..Len(hrows) |-> hrows[i].hotelId]

\* the room codes of every Hotel row of a SearchCache row, in stored order
StoredRoomCodes(entry) ==
  LET hrows == RowsInOrder({h \in db.hotel : h.searchCacheId = entry.id})
  IN [i \in 1..Len(hrows) |->
        LET rrows == RowsInOrder({r \in db.room : r.hotelId = hrows[i].id})
        IN [j \in 1..Len(rrows) |-> rrows[j].code]]

\* C4: a put replaces the entry of a key atomically: no get of that key
\* misses while a put that deleted an existing entry has not yet inserted the
\* new one, and a put whose insert failed leaves the earlier entry stored.
C4_PutIsAtomic ==
  /\ (lastGet # NoGet /\ ~lastGet.fault /\ lastGet.midReplace) => lastGet.result # Miss
  /\ \A c \in Callers :
       (put[c].pc = "failed" /\ put[c].hadEntry)
          => KeyPresent(db, generateSearchCacheKey(put[c].params))

\* C9: after successful puts under a key the store holds exactly one entry
\* for it, whose hotels and rooms are exactly those of the last successful
\* put; no Hotel or Room row of an earlier put survives anywhere.
C9_OneEntryOfLastPut ==
  /\ \A k \in KeyPool :
       /\ Cardinality(EntriesOf(k)) <= 1
       /\ (lastPut[k] # NoPut /\ ~deletedSince[k]) => Cardinality(EntriesOf(k)) = 1
       /\ \A e \in EntriesOf(k) :
            /\ lastPut[k] # NoPut
            /\ StoredHotelIds(e) =
                 [i \in 1..Len(lastPut[k].v) |-> lastPut[k].v[i].hotelId]
            /\ StoredRoomCodes(e) =
                 [i \in 1..Len(lastPut[k].v) |->
                    [j \in 1..Len(lastPut[k].v[i].rooms) |-> lastPut[k].v[i].rooms[j].code]]
  /\ \A h \in db.hotel : \E e \in db.searchCache : h.searchCacheId = e.id
  /\ \A r \in db.room : \E h \in db.hotel : r.hotelId = h.id

\* two successful puts of different non-empty hotel lists under one key
C9_Witness ==
  \E c1, c2 \in Callers :
    /\ c1 # c2
    /\ put[c1].pc = "ok" /\ put[c2].pc = "ok"
    /\ put[c1].params = put[c2].params
    /\ put[c1].hotels = <<HotelB, HotelA>> /\ put[c2].hotels = <<HotelEmptyLists>>
    /\ lastPut[generateSearchCacheKey(put[c2].params)] = Some(put[c2].hotels)
    /\ ~deletedSince[generateSearchCacheKey(put[c2].params)]

\* a get of a key that follows a successful put of that key with no delete between
GetFollowsPut ==
  /\ lastGet # NoGet
  /\ ~lastGet.fault
  /\ lastGet.want # NoPut
  /\ ~lastGet.deletedSince

RoomAsRead(room) ==
  [room EXCEPT
     !.addedValues = IF room.addedValues = Some(<<>>) THEN Absent ELSE @,
     !.valueIndicators = IF room.valueIndicators = Some(<<>>) THEN Absent ELSE @]

HotelsAsRead(hotels) ==
  [i \in 1..Len(hotels) |->
     [hotels[i] EXCEPT !.rooms = [j \in 1..Len(hotels[i].rooms) |->
                                     RoomAsRead(hotels[i].rooms[j])]]]

C11_GetNeverThrows ==
  lastGet # NoGet =>
    /\ lastGet.result # Thrown
    /\ (lastGet.fault \/ lastGet.malformed) => lastGet.result = Miss

\* a get without store failure of a key whose entry holds malformed JSON
C11_Witness ==
  /\ lastGet # NoGet
  /\ ~lastGet.fault /\ lastGet.malformed
  /\ lastGet.result = Miss

\* C21: a vendor search never throws to searchAllVendors and every network
\* or parse exception in it gives an unsuccessful vendor result; a response
\* document whose header dates cannot be extracted is an unsuccessful vendor
\* result, not a successful one.
C21_UnparsableResponseIsVendorFailure ==
  /\ \A i \in call.searched : i < call.vi => i <= Len(call.vres)
  /\ \A e \in call.parsed :
       (e[1] <= Len(call.vres)
        /\ (e[2].checkIn = Absent \/ e[2].checkOut = Absent))
         => ~call.vres[e[1]].success

\* the document parsed for vendor i of the running call
DocOfVendor(i) == (CHOOSE e \in call.parsed : e[1] = i)[2]

\* hotel names and room codes of a document, boundary rows and room rows in
\* document order, rows without a name left out
RowOrderOfDoc(doc) ==
  LET named == SelectSeq(doc.rows, LAMBDA sec : sec.hasInfo /\ sec.name # "")
  IN [i \in 1..Len(named) |->
        LET rooms == SelectSeq(named[i].roomRows,
                               LAMBDA row : row.hasWrapper /\ row.name # "")
        IN [name |-> named[i].name,
            rooms |-> [j \in 1..Len(rooms) |-> rooms[j].code]]]

RECURSIVE RowOrderOfVendors(_)
\* the same for the successful vendors from vendor i on, in vendor order
RowOrderOfVendors(i) ==
  IF i > Len(call.vres) THEN <<>>
  ELSE (IF call.vres[i].success THEN RowOrderOfDoc(DocOfVendor(i)) ELSE <<>>)
         \o RowOrderOfVendors(i + 1)

\* hotel names and room codes of a hotel list
RowOrderOfHotels(hotels) ==
  [i \in 1..Len(hotels) |->
     [name |-> hotels[i].name,
      rooms |-> [j \in 1..Len(hotels[i].rooms) |-> hotels[i].rooms[j].code]]]

\* C22: the aggregate searchAllVendors returns is the concatenation, in the
\* order the vendors were processed, of each successful vendor's hotels in
\* document row order, each hotel's rooms in document row order.
C22_AggregateInVendorAndRowOrder ==
  (call.listed /\ call.result # NoResult /\ call.result.success)
    => RowOrderOfHotels(call.result.hotels) = RowOrderOfVendors(1)

\* an aggregate of two successful vendors: two-room Alpha, then Bravo
C22_Witness ==
  /\ call.listed /\ call.result # NoResult /\ call.result.success
  /\ Len(call.vres) = 2
  /\ call.vres[1].success /\ call.vres[2].success
  /\ RowOrderOfHotels(call.result.hotels) =
       <<[name |-> "Alpha", rooms |-> <<"K", "Q">>],
         [name |-> "Bravo", rooms |-> <<"Q">>]>>

\* C26: every search POST carries the hidden form fields of a search page
\* that was fetched from the upstream during that same vendor search, never
\* those of a response an earlier search obtained or stored.
C26_PostCarriesFreshHiddenFields ==
  \A p \in posts : p.body.hidden = p.call

\* C33: the hotels a vendor search returns are parsed from the response to a
\* POST that this same call issued, never from a response an earlier search
\* (of whatever parameters) stored.
C33_HotelsFromOwnPost ==
  \A e \in call.parsed : e[3] = calls

\* ------------------------------------------------------------------------
\* parseSearchHtml applied to a response document
\* ------------------------------------------------------------------------
ExtractInit ==
  /\ args \in [none : {FALSE}, doc : ExtractDocs]
  /\ out = NoOut
  /\ now = 0
  /\ db = EmptyDb
  /\ put = [c \in Callers |-> IdlePut]
  /\ puts = 0
  /\ lastPut = [k \in KeyPool |-> NoPut]
  /\ deletedSince = [k \in KeyPool |-> FALSE]
  /\ lastGet = NoGet
  /\ gets = 0
  /\ session = NoSession
  /\ cookieJar = {}
  /\ sessionFile = Absent
  /\ responseFiles = [n \in ResponseNames |-> Absent]
  /\ pc = "idle"
  /\ calls = 0
  /\ call = NoCall
  /\ inFlight = {}
  /\ posts = {}
  /\ searchRequest = <<>>
  /\ proc = <<>>
  /\ creating = [c \in Callers |-> Absent]
  /\ emitted = <<>>

\* parseSearchHtml(html)
ExtractApply ==
  /\ out = NoOut
  /\ out' = [none |-> FALSE, hotels |-> parseSearchHtml(args.doc)]
  /\ UNCHANGED <<args, db, now>>
  /\ UNCHANGED cacheVars
  /\ UNCHANGED clientVars
  /\ UNCHANGED serviceVars

ExtractNext == ExtractApply

SpecExtract == ExtractInit /\ [][ExtractNext]_vars

\* ------------------------------------------------------------------------
\* Extraction properties (checked under SpecExtract)
\* ------------------------------------------------------------------------
\* C20: a document that lacks the header check-in date or the header
\* check-out date yields no hotel at all, however many well-formed hotel
\* rows it contains.
C20_NoHeaderDateNoHotels ==
  (out # NoOut /\ (args.doc.checkIn = Absent \/ args.doc.checkOut = Absent))
    => out.hotels = <<>>

\* the boundary rows of a document that carry a hotel name, in row order
WellFormedRows(doc) == SelectSeq(doc.rows, LAMBDA sec : sec.hasInfo /\ sec.name # "")

\* C23: for a document with both header dates, N well-formed hotel boundary
\* rows and any boundary rows without a name, parseSearchHtml returns
\* exactly N results, one per well-formed row; a nameless row is skipped
\* without affecting the others.
C23_NamelessRowsSkipped ==
  (out # NoOut /\ args.doc.checkIn # Absent /\ args.doc.checkOut # Absent)
    => /\ Len(out.hotels) = Len(WellFormedRows(args.doc))
       /\ \A i \in 1..Len(out.hotels) :
            /\ out.hotels[i].name = WellFormedRows(args.doc)[i].name
            /\ out.hotels[i].hotelId = WellFormedRows(args.doc)[i].hotelId

\* a nameless row ahead of a well-formed one: one result
C23_Witness ==
  /\ out # NoOut
  /\ args.doc.checkIn # Absent /\ args.doc.checkOut # Absent
  /\ args.doc.rows = <<SectionNameless, SectionAlpha>>
  /\ Len(out.hotels) = 1
  /\ out.hotels[1].name = "Alpha"

\* ------------------------------------------------------------------------
\* parseVaxShortDate applied to a DDMMMYY string
\* ------------------------------------------------------------------------
DateInit ==
  /\ args \in [none : {FALSE}, dd : 1..31, mon : 1..12, yy : 0..99]
  /\ out = NoOut
  /\ now = 0
  /\ db = EmptyDb
  /\ put = [c \in Callers |-> IdlePut]
  /\ puts = 0
  /\ lastPut = [k \in KeyPool |-> NoPut]
  /\ deletedSince = [k \in KeyPool |-> FALSE]
  /\ lastGet = NoGet
  /\ gets = 0
  /\ session = NoSession
  /\ cookieJar = {}
  /\ sessionFile = Absent
  /\ responseFiles = [n \in ResponseNames |-> Absent]
  /\ pc = "idle"
  /\ calls = 0
  /\ call = NoCall
  /\ inFlight = {}
  /\ posts = {}
  /\ searchRequest = <<>>
  /\ proc = <<>>
  /\ creating = [c \in Callers |-> Absent]
  /\ emitted = <<>>

\* parseVaxShortDate(dateStr)
DateApply ==
  /\ out = NoOut
  /\ out' = [none |-> FALSE,
             date |-> parseVaxShortDate(ShortDateString(args.dd, args.mon, args.yy))]
  /\ UNCHANGED <<args, db, now>>
  /\ UNCHANGED cacheVars
  /\ UNCHANGED clientVars
  /\ UNCHANGED serviceVars

DateNext == DateApply

SpecDate == DateInit /\ [][DateNext]_vars

\* ------------------------------------------------------------------------
\* Short-date properties (checked under SpecDate)
\* ------------------------------------------------------------------------
\* C24: every DDMMMYY string whose month abbreviation is in the month table
\* is mapped to the date with day DD, that month and year 2000 + YY, for
\* every YY in 00..99.
C24_ShortDateYear2000PlusYY ==
  out # NoOut => out.date = DateStr(2000 + args.yy, args.mon, args.dd)

\* "10JAN26" gives 2026-01-10
C24_Witness ==
  /\ out # NoOut
  /\ args.dd = 10 /\ args.mon = 1 /\ args.yy = 26
  /\ out.date = <<"2", "0", "2", "6", "-", "0", "1", "-", "1", "0">>

\* C25 as stated: "01DEC99" is mapped to 1999-12-01.
C25_Dec99Is1999 ==
  (out # NoOut /\ args.dd = 1 /\ args.mon = 12 /\ args.yy = 99)
    => out.date = <<"1", "9", "9", "9", "-", "1", "2", "-", "0", "1">>

\* C25 amended: "01DEC99" is mapped to 2099-12-01, the year being 2000 + YY
\* without a pivot.
C25_Dec99Is2099 ==
  (out # NoOut /\ args.dd = 1 /\ args.mon = 12 /\ args.yy = 99)
    => out.date = <<"2", "0", "9", "9", "-", "1", "2", "-", "0", "1">>

\* parseVaxShortDate("01DEC99") has returned
C25_Witness ==
  /\ out # NoOut
  /\ args.dd = 1 /\ args.mon = 12 /\ args.yy = 99
  /\ ShortDateString(args.dd, args.mon, args.yy) = <<"0", "1", "D", "E", "C", "9", "9">>

C15_LoginRestoresStoredSession ==
  (/\ call.kind = "login" /\ pc = "done"
   /\ call.load.before # Absent
   /\ call.load.before.v.expiresAt >= call.load.at)
  => /\ call.loginRet = LoginSuccess(call.load.before.v.cookies)
     /\ session # NoSession
     /\ session.cookies = call.load.before.v.cookies
     /\ cookieJar = call.load.before.v.cookies
     /\ call.netReqs = 0

\* a login() that returned from a stored record one hour old
C15_Witness ==
  /\ call.kind = "login" /\ pc = "done"
  /\ call.load.before # Absent
  /\ call.load.at = 1
  /\ call.load.before.v.expiresAt >= call.load.at
  /\ call.loginRet # NoLoginRet /\ call.loginRet.success

\* C16: a login POST answered by a 3xx whose Location is absent or is not on
\* the post-login domain makes login() return failure: no redirect is
\* followed, no in-memory session is set, no session record is persisted.
C16_ForeignRedirectIsFailure ==
  (/\ call.kind = "login"
   /\ call.resp # Absent
   /\ call.resp.v.status >= 300 /\ call.resp.v.status < 400
   /\ ~IsLoginRedirectToDomain(call.resp.v))
  => /\ call.loginRet = LoginFailure
     /\ ~call.followed
     /\ session = call.sessionAtStart
     /\ sessionFile = Absent

\* C17: if any of the three hidden form tokens is missing from the login
\* page, login() returns failure without sending the login POST, and no
\* session is created in memory or persisted.
C17_MissingTokenIsFailure ==
  (/\ call.kind = "login"
   /\ call.loginPage # Absent
   /\ call.loginPage.v.status = "ok"
   /\ ~(TokenNames \subseteq call.loginPage.v.tokens))
  => /\ call.loginRet = LoginFailure
     /\ ~call.posted
     /\ session = call.sessionAtStart
     /\ sessionFile = Absent

\* a login() that returned after a page without __EVENTVALIDATION
C17_Witness ==
  /\ call.kind = "login" /\ pc = "done"
  /\ call.loginPage # Absent
  /\ call.loginPage.v.tokens = TokenNames \ {"__EVENTVALIDATION"}
  /\ call.loginRet = LoginFailure

\* C18: after logout(), from any state of the client and the store, the
\* client has no in-memory session, its cookie jar is empty and the store
\* holds no record for its identity (so a second logout changes nothing).
C18_LogoutClearsEverything ==
  (call.kind = "logout" /\ pc = "done") =>
    /\ session = NoSession
    /\ cookieJar = {}
    /\ sessionFile = Absent

\* C19: ensureLoggedIn() calls login() only when the instance holds no
\* in-memory session; with a session in memory it reads no Session Store
\* record and issues no network request, even after the TTL of the persisted
\* record has passed.
C19_EnsureLoggedInOnlyWithoutSession ==
  call.kind = "ensure" =>
    /\ call.sessionAtStart # NoSession =>
         (call.storeReads = 0 /\ call.netReqs = 0 /\ pc = "done")
    /\ (call.sessionAtStart = NoSession /\ pc = "done") => call.load # NoLoad

\* ensureLoggedIn() with a session in memory whose persisted record has expired
C19_Witness ==
  /\ call.kind = "ensure" /\ pc = "done"
  /\ call.sessionAtStart # NoSession
  /\ sessionFile # Absent
  /\ now > sessionFile.v.expiresAt

\* ------------------------------------------------------------------------
\* Cache key properties (checked under SpecKey)
\* ------------------------------------------------------------------------
\* the alphanumeric characters of a string, in order
Alnums(str) == SelectSeq(str, LAMBDA ch : ch \in AlnumChars)

\* two parameter sets that differ at most in non-alphanumeric characters of
\* the origin and destination codes
DifferOnlyInNonAlnum(a, b) ==
  /\ Alnums(a.origin) = Alnums(b.origin)
  /\ Alnums(a.destination) = Alnums(b.destination)
  /\ [a EXCEPT !.origin = <<>>, !.destination = <<>>]
       = [b EXCEPT !.origin = <<>>, !.destination = <<>>]

\* C12: generateSearchCacheKey strips the non-alphanumeric characters of
\* origin and destination: parameter sets that differ only in such
\* characters ("ATL" and "AT-L ") get the same cache key.
C12_NonAlnumStripped ==
  (out # NoOut /\ DifferOnlyInNonAlnum(args.a, args.b)) => out.ka = out.kb

\* C13: parameter sets that agree on origin, destination and dates get
\* different cache keys whenever they differ in the room count or in the
\* adults-per-room list, whatever their children and child-age lists are.
C13_RoomsAndAdultsSeparateKeys ==
  (/\ out # NoOut
   /\ args.a.origin = args.b.origin /\ args.a.destination = args.b.destination
   /\ args.a.checkIn = args.b.checkIn /\ args.a.checkOut = args.b.checkOut
   /\ (args.a.rooms # args.b.rooms \/ args.a.adultsPerRoom # args.b.adultsPerRoom))
  => out.ka # out.kb

\* keys computed for one room of eleven adults against two rooms of one adult
\* each written as room count 1, with different children lists
C13_Witness ==
  /\ out # NoOut
  /\ args.a.origin = args.b.origin
  /\ args.a.rooms = 1 /\ args.b.rooms = 1
  /\ args.a.adultsPerRoom = <<11>> /\ args.b.adultsPerRoom = <<1, 1>>
  /\ args.a.childrenPerRoom = <<0>> /\ args.b.childrenPerRoom = <<1>>
  /\ out.ka # out.kb

\* ------------------------------------------------------------------------
RECURSIVE SuccessfulHotels(_)
\* the hotels of the vendors whose search succeeded, in vendor order
SuccessfulHotels(vres) ==
  IF Len(vres) = 0 THEN <<>>
  ELSE (IF vres[1].success THEN vres[1].hotels ELSE <<>>) \o SuccessfulHotels(Tail(vres))

\* C1: a searchAllVendors call made while the cache holds an entry for the
\* key of its params issues no upstream request and returns that entry,
\* whatever the in-memory session and the Session Store record are.
C1_CacheHitWithoutNetwork ==
  call.entryAtStart # Miss =>
    /\ call.netReqs = 0
    /\ pc = "done" => call.result = Result(TRUE, call.entryAtStart.hotels)

\* C2: whatever the vendor list and the outcome of each vendor, the search
\* executor is invoked for every vendor, the call reports success and returns
\* exactly the hotels of the vendors whose search succeeded.
C2_EveryVendorSearchedAndSuccess ==
  (pc = "done" /\ call.listed) =>
    /\ call.searched = 1..Len(call.vendors)
    /\ call.result = Result(TRUE, SuccessfulHotels(call.vres))

\* C3: when writing the aggregate to the cache fails, searchAllVendors still
\* reports success and returns the live aggregate.
C3_CacheWriteFailureSwallowed ==
  (pc = "done" /\ call.saveFailed) => call.result = Result(TRUE, call.allHotels)

\* C5: at most one vendor search request is in flight at any time, and it
\* belongs to the vendor the loop is currently at: the next vendor's request
\* is never issued before the previous vendor's search has completed.
C5_OneRequestInFlight ==
  /\ Cardinality(inFlight) <= 1
  /\ \A r \in inFlight : r[1] = call.vi /\ Len(call.vres) = call.vi - 1

\* the second vendor's request is in flight after the first vendor completed
C5_Witness ==
  /\ inFlight # {}
  /\ call.vi = 2
  /\ Len(call.vres) = 1

\* C6: between the requests of two consecutive vendors the inter-vendor delay
\* elapses, whatever the outcome of the earlier vendor, and no delay follows
\* the last vendor.
C6_DelayBetweenVendorRequests ==
  /\ ~call.undelayed
  /\ Len(call.vendors) \notin call.delayed

\* C7: when login fails during a multi-vendor search, the call reports
\* failure and writes nothing to the result cache.
C7_LoginFailureSurfaced ==
  call.loginRes = "failed" =>
    /\ ~call.saved
    /\ pc = "done" => ~call.result.success

\* the business fields of a search body, the vendor aside
BusinessFields(body) ==
  <<body.Origin, body.Destination, body.departure, body.return, body.hotelcheckin,
    body.hotelcheckout, body.numrooms, body.adults, body.children>>

\* the search parameters the business fields are to carry
BusinessParams(params) ==
  <<params.origin, params.destination, params.checkIn, params.checkOut,
    params.rooms, params.adultsPerRoom, params.childrenPerRoom>>

\* C8: the business fields of every search POST body follow the params of the
\* call: room count and first-room occupancy equal the params, and two POSTs
\* whose params differ carry different business fields.
C8_BodyFollowsParams ==
  \A p \in posts :
    /\ p.body.numrooms = p.params.rooms
    /\ p.body.adults = p.params.adultsPerRoom[1]
    /\ p.body.children = p.params.childrenPerRoom[1]
    /\ \A q \in posts :
         BusinessParams(p.params) # BusinessParams(q.params)
            => BusinessFields(p.body) # BusinessFields(q.body)

\* ------------------------------------------------------------------------
\* SearchService: search requests processed in the background
\* ------------------------------------------------------------------------
\* the message of the timeout rejection
TimeoutError == "Search timeout after 5 minutes"

\* the message thrown for a response with success: false
SearchFailedError == "Search failed"

\* the message of an update rejected by the unique index on searchCacheId
UniqueError == "Unique constraint failed"

\* this.vaxClient: the one VaxClient the constructor of the service creates
vaxClient == 1

\* the parameter sets createSearchRequest is called with
ServiceParams == {ParamsATL, ParamsTwoRooms}

\* prisma.searchCache.findUnique({ where: { cacheKey } }): the id of the row
FindCache(d, key) ==
  IF KeyPresent(d, key)
  THEN Some((CHOOSE r \in d.searchCache : r.cacheKey = key).id)
  ELSE Absent

\* include: { searchRequest: true }: the request rows linked to that cache row
LinkedRequests(d, reqs, key) ==
  {i \in DOMAIN reqs : /\ FindCache(d, key) # Absent
                       /\ reqs[i].searchCacheId = FindCache(d, key)}

\* the request rows created for the parameters of a cache key
RequestsWithKey(reqs, key) ==
  {i \in DOMAIN reqs : generateCacheKey(reqs[i].params) = key}

\* prisma.searchRequest.create with status "pending"
NewRequest(params) ==
  [params |-> params, status |-> "pending", progress |-> Absent,
   error |-> Absent, searchCacheId |-> Absent]

\* processSearch called and suspended at its first update
NewProc ==
  [pc |-> "start", search |-> "none", client |-> 0, timer |-> "unset",
   found |-> Absent, err |-> ""]

\* what a searchAllVendors call of the service comes back with: results saved
\* to the cache, results read from the cache, success: false, or success:
\* false after the save deleted the entry and failed to create it
SearchOutcomes == {"saved", "cached", "failed", "saveFailed"}

\* the SearchCache tables after the search
DbAfterSearch(d, params, outcome, t) ==
  IF outcome = "saved"
  THEN Create(DeleteMany(d, generateCacheKey(params)), params, SeedHotels, t)
  ELSE IF outcome = "saveFailed" THEN DeleteMany(d, generateCacheKey(params))
  ELSE d

\* the search result reaches processSearch whatever became of the race
SearchSettlesLate(p, outcome) ==
  IF outcome \in {"saved", "cached"}
  THEN [p EXCEPT !.pc = "link", !.search = "returned"]
  ELSE [p EXCEPT !.pc = "catch", !.err = SearchFailedError, !.search = "returned"]

\* Promise.race, search side: the result settles the race unless the timeout
\* did; if (!response.success) throw
SearchSettles(p, outcome) ==
  IF p.pc # "race" THEN [p EXCEPT !.search = "returned"]
  ELSE IF outcome \in {"saved", "cached"}
  THEN [p EXCEPT !.pc = "link", !.search = "returned"]
  ELSE [p EXCEPT !.pc = "catch", !.err = SearchFailedError, !.search = "returned"]

\* the timeout rejects nothing
TimeoutSettlesNothing(p) == [p EXCEPT !.timer = "fired"]

\* Promise.race, timer side: the rejection settles the race unless the search did
TimeoutSettles(p) ==
  IF p.pc = "race"
  THEN [p EXCEPT !.pc = "catch", !.err = TimeoutError, !.timer = "fired"]
  ELSE [p EXCEPT !.timer = "fired"]

\* createSearchRequest: an existing cache entry with a linked request returns
\* that request's id and changes nothing; anything else creates the pending
\* row, starts processSearch without awaiting it and returns the new id
createSearchRequest(params) ==
  /\ LinkedRequests(db, searchRequest, generateCacheKey(params)) = {}
  /\ Len(searchRequest) < MaxRequests
  /\ searchRequest' = Append(searchRequest, NewRequest(params))
  /\ proc' = Append(proc, NewProc)
  /\ UNCHANGED <<db, now>>
  /\ UNCHANGED cacheVars
  /\ UNCHANGED clientVars
  /\ UNCHANGED pureVars
  /\ UNCHANGED <<creating, emitted>>

\* processSearch: the first update, status "in_progress"
ProcessSearchStart(id) ==
  /\ id \in DOMAIN proc
  /\ proc[id].pc = "start"
  /\ searchRequest' = [searchRequest EXCEPT
                         ![id].status = "in_progress",
                         ![id].progress = Some("Initializing search...")]
  /\ proc' = [proc EXCEPT ![id].pc = "progress"]
  /\ UNCHANGED <<db, now>>
  /\ UNCHANGED cacheVars
  /\ UNCHANGED clientVars
  /\ UNCHANGED pureVars
  /\ UNCHANGED <<creating, emitted>>

\* processSearch: the progress update, then this.vaxClient.searchAllVendors is
\* called, the timer is set and the race awaited; the upstream answers or not
ProcessSearchRace(id, answers) ==
  /\ id \in DOMAIN proc
  /\ proc[id].pc = "progress"
  /\ searchRequest' = [searchRequest EXCEPT
                         ![id].progress = Some("Searching all vendors...")]
  /\ proc' = [proc EXCEPT ![id].pc = "race",
                          ![id].search = IF answers THEN "running" ELSE "hung",
                          ![id].client = vaxClient,
                          ![id].timer = "armed"]
  /\ UNCHANGED <<db, now>>
  /\ UNCHANGED cacheVars
  /\ UNCHANGED clientVars
  /\ UNCHANGED pureVars
  /\ UNCHANGED <<creating, emitted>>

\* searchAllVendors of a request returns, before or after the timeout
ServiceSearchReturns(id, outcome) ==
  /\ id \in DOMAIN proc
  /\ proc[id].search = "running"
  /\ outcome = "cached" => KeyPresent(db, generateCacheKey(searchRequest[id].params))
  /\ db' = DbAfterSearch(db, searchRequest[id].params, outcome, now)
  /\ proc' = [proc EXCEPT ![id] = SearchSettles(proc[id], outcome)]
  /\ UNCHANGED <<searchRequest, now>>
  /\ UNCHANGED cacheVars
  /\ UNCHANGED clientVars
  /\ UNCHANGED pureVars
  /\ UNCHANGED <<creating, emitted>>

\* the setTimeout callback of a request runs: 5 minutes have passed since the
\* timer was set
TimeoutFires(id) ==
  /\ id \in DOMAIN proc
  /\ proc[id].timer = "armed"
  /\ proc' = [proc EXCEPT ![id] = TimeoutSettles(proc[id])]
  /\ UNCHANGED <<searchRequest, db, now>>
  /\ UNCHANGED cacheVars
  /\ UNCHANGED clientVars
  /\ UNCHANGED pureVars
  /\ UNCHANGED <<creating, emitted>>

\* processSearch after a successful response: findUnique of the cache entry
ProcessSearchFindCache(id) ==
  /\ id \in DOMAIN proc
  /\ proc[id].pc = "link"
  /\ proc' = [proc EXCEPT
                ![id].pc = "update",
                ![id].found = FindCache(db, generateCacheKey(searchRequest[id].params))]
  /\ UNCHANGED <<searchRequest, db, now>>
  /\ UNCHANGED cacheVars
  /\ UNCHANGED clientVars
  /\ UNCHANGED pureVars
  /\ UNCHANGED <<creating, emitted>>

\* the unique index on SearchRequest.searchCacheId rejects the update
LinkTaken(reqs, id, found) ==
  /\ found # Absent
  /\ \E o \in DOMAIN reqs : o # id /\ reqs[o].searchCacheId = found

\* processSearch: the update to status "completed", linked to the cache entry
\* if one was found; an update that throws leaves the row as it was
ProcessSearchComplete(id) ==
  /\ id \in DOMAIN proc
  /\ proc[id].pc = "update"
  /\ IF LinkTaken(searchRequest, id, proc[id].found)
     THEN /\ proc' = [proc EXCEPT ![id].pc = "catch", ![id].err = UniqueError]
          /\ UNCHANGED searchRequest
     ELSE /\ searchRequest' = [searchRequest EXCEPT
                                 ![id].status = "completed",
                                 ![id].searchCacheId = proc[id].found]
          /\ proc' = [proc EXCEPT ![id].pc = "done"]
  /\ UNCHANGED <<db, now>>
  /\ UNCHANGED cacheVars
  /\ UNCHANGED clientVars
  /\ UNCHANGED pureVars
  /\ UNCHANGED <<creating, emitted>>

\* processSearch, catch block: the update to status "failed" with the message
ProcessSearchCatch(id) ==
  /\ id \in DOMAIN proc
  /\ proc[id].pc = "catch"
  /\ searchRequest' = [searchRequest EXCEPT
                         ![id].status = "failed",
                         ![id].error = Some(proc[id].err)]
  /\ proc' = [proc EXCEPT ![id].pc = "done"]
  /\ UNCHANGED <<db, now>>
  /\ UNCHANGED cacheVars
  /\ UNCHANGED clientVars
  /\ UNCHANGED pureVars
  /\ UNCHANGED <<creating, emitted>>

\* a fresh SearchService over an empty database
ServiceInit ==
  /\ now = 0
  /\ db = EmptyDb
  /\ put = [c \in Callers |-> IdlePut]
  /\ puts = 0
  /\ lastPut = [k \in KeyPool |-> NoPut]
  /\ deletedSince = [k \in KeyPool |-> FALSE]
  /\ lastGet = NoGet
  /\ gets = 0
  /\ session = NoSession
  /\ cookieJar = {}
  /\ sessionFile = Absent
  /\ responseFiles = [n \in ResponseNames |-> Absent]
  /\ pc = "idle"
  /\ calls = 0
  /\ call = NoCall
  /\ inFlight = {}
  /\ posts = {}
  /\ searchRequest = <<>>
  /\ proc = <<>>
  /\ creating = [c \in Callers |-> Absent]
  /\ emitted = <<>>
  /\ args = NoArgs
  /\ out = NoOut

ServiceNext ==
  \/ \E p \in ServiceParams : createSearchRequest(p)
  \/ \E id \in 1..MaxRequests : ProcessSearchStart(id)
  \/ \E id \in 1..MaxRequests, answers \in BOOLEAN : ProcessSearchRace(id, answers)
  \/ \E id \in 1..MaxRequests, o \in SearchOutcomes : ServiceSearchReturns(id, o)
  \/ \E id \in 1..MaxRequests : TimeoutFires(id)
  \/ \E id \in 1..MaxRequests : ProcessSearchFindCache(id)
  \/ \E id \in 1..MaxRequests : ProcessSearchComplete(id)
  \/ \E id \in 1..MaxRequests : ProcessSearchCatch(id)

SpecService == ServiceInit /\ [][ServiceNext]_vars

\* timers run when they are due and the database answers
ServiceFairness ==
  \A id \in 1..MaxRequests :
    /\ WF_vars(TimeoutFires(id))
    /\ WF_vars(ProcessSearchCatch(id))

SpecServiceLive == ServiceInit /\ [][ServiceNext]_vars /\ ServiceFairness

\* ------------------------------------------------------------------------
\* SearchService properties (checked under SpecService / SpecServiceLive)
\* ------------------------------------------------------------------------
\* the searchAllVendors call of the request has not returned
Searching(id) == proc[id].search \in {"running", "hung"}

\* C27: no two multi-vendor searches run at the same time on one VaxClient
\* instance: two requests whose searches are running use different clients.
C27_ConcurrentSearchesOwnClients ==
  \A i, j \in DOMAIN proc :
    (i # j /\ Searching(i) /\ Searching(j)) => proc[i].client # proc[j].client

\* the request waits on the race and its upstream never answers
RacingUnanswered(id) ==
  /\ id \in DOMAIN proc
  /\ proc[id].pc = "race"
  /\ proc[id].search = "hung"

\* the request failed with the timeout error, its search still in flight
TimedOut(id) ==
  /\ id \in DOMAIN proc
  /\ searchRequest[id].status = "failed"
  /\ searchRequest[id].error = Some(TimeoutError)
  /\ proc[id].search = "hung"

CreatedParams == searchRequest'[Len(searchRequest')].params

\* C29: createSearchRequest for parameters that already have a request, in
\* whatever status, creates no request record and starts no background
\* search: every request created is the first one of its parameters.
C29_NoSecondRequestForSameParams ==
  [][Len(searchRequest') > Len(searchRequest) =>
       RequestsWithKey(searchRequest, generateCacheKey(CreatedParams)) = {}]_vars

\* the moves a status may make
StatusMoves ==
  {<<"pending", "in_progress">>, <<"in_progress", "completed">>,
   <<"in_progress", "failed">>}

MaxEvictDays == 2

\* creation times of the stored entries, in hours
EvictTimes == {0, 23, 24, 25, 48}

\* the wall clock at the call, in hours
EvictNows == {48, 72}

\* databases holding no entry, one entry or two, created at those times
EvictDbs ==
  {EmptyDb}
  \cup {Create(EmptyDb, ParamsATL, <<HotelA>>, t) : t \in EvictTimes}
  \cup {Create(Create(EmptyDb, ParamsATL, <<HotelA>>, t), ParamsTwoRooms, <<HotelB>>, u) :
          t \in EvictTimes, u \in EvictTimes}

\* cutoffDate.setDate(cutoffDate.getDate() - olderThanDays), in hours
CutoffDate(t, olderThanDays) == t - 24 * olderThanDays

\* createdAt: { lte: cutoffDate }
CreatedBeforeOrAt(r, cutoff) == r.createdAt <= cutoff

\* createdAt: { lt: cutoffDate }
CreatedBefore(r, cutoff) == r.createdAt < cutoff

\* clearOldCacheEntries(olderThanDays): deleteMany of the entries created before
\* the cutoff, cascading to Hotel and Room, and its count; 0 when it throws
clearOldCacheEntries(d, t, olderThanDays, fault) ==
  LET gone  == {r.id : r \in {x \in d.searchCache :
                                CreatedBefore(x, CutoffDate(t, olderThanDays))}}
      hgone == {h.id : h \in {x \in d.hotel : x.searchCacheId \in gone}}
  IN IF fault THEN [db |-> d, count |-> 0]
     ELSE [db |-> [d EXCEPT !.searchCache = {r \in d.searchCache : r.id \notin gone},
                            !.hotel = {h \in d.hotel : h.searchCacheId \notin gone},
                            !.room = {r \in d.room : r.hotelId \notin hgone}],
           count |-> Cardinality(gone)]

EvictInit ==
  /\ args \in [none : {FALSE}, olderThanDays : 0..MaxEvictDays, db : EvictDbs]
  /\ out = NoOut
  /\ now \in EvictNows
  /\ db = args.db
  /\ put = [c \in Callers |-> IdlePut]
  /\ puts = 0
  /\ lastPut = [k \in KeyPool |-> NoPut]
  /\ deletedSince = [k \in KeyPool |-> FALSE]
  /\ lastGet = NoGet
  /\ gets = 0
  /\ session = NoSession
  /\ cookieJar = {}
  /\ sessionFile = Absent
  /\ responseFiles = [n \in ResponseNames |-> Absent]
  /\ pc = "idle"
  /\ calls = 0
  /\ call = NoCall
  /\ inFlight = {}
  /\ posts = {}
  /\ searchRequest = <<>>
  /\ proc = <<>>
  /\ creating = [c \in Callers |-> Absent]
  /\ emitted = <<>>

\* clearOldCacheEntries(olderThanDays), the database answering or failing
EvictApply(fault) ==
  /\ out = NoOut
  /\ LET res == clearOldCacheEntries(db, now, args.olderThanDays, fault)
     IN /\ db' = res.db
        /\ out' = [none |-> FALSE, count |-> res.count, fault |-> fault]
  /\ UNCHANGED <<args, now>>
  /\ UNCHANGED cacheVars
  /\ UNCHANGED clientVars
  /\ UNCHANGED serviceVars

EvictNext == \E fault \in BOOLEAN : EvictApply(fault)

SpecEvict == EvictInit /\ [][EvictNext]_vars

\* ------------------------------------------------------------------------
\* Eviction properties (checked under SpecEvict)
\* ------------------------------------------------------------------------
\* the entries of a database created at or after the cutoff of the call
NewerEntries(d) ==
  {r \in d.searchCache : r.createdAt >= now - 24 * args.olderThanDays}

\* the hotels of an entry and the rooms of those hotels
RowsUnder(d, r) ==
  LET hs == {h \in d.hotel : h.searchCacheId = r.id}
  IN <<hs, {x \in d.room : x.hotelId \in {h.id : h \in hs}}>>

\* C31: clearOldCacheEntries(days) removes exactly the entries created before
\* now minus days (when the database answers), leaves every newer entry with
\* its hotels and rooms as it was, and returns the number of entries removed.
C31_EvictsExactlyOlderEntries ==
  out # NoOut =>
    /\ ~out.fault => db.searchCache = NewerEntries(args.db)
    /\ \A r \in NewerEntries(args.db) :
         r \in db.searchCache /\ RowsUnder(db, r) = RowsUnder(args.db, r)
    /\ out.count = Cardinality(args.db.searchCache \ db.searchCache)

\* of an entry a day and an hour old and one exactly a day old, a call with
\* one day removes the first and keeps the second
C31_Witness ==
  /\ out # NoOut /\ ~out.fault
  /\ now = 48 /\ args.olderThanDays = 1
  /\ {r.createdAt : r \in args.db.searchCache} = {23, 24}
  /\ {r.createdAt : r \in db.searchCache} = {24}
  /\ out.count = 1

\* ------------------------------------------------------------------------
\* The two cache-key functions (checked under SpecKey)
\* ------------------------------------------------------------------------
\* C32: SearchService.generateCacheKey and generateSearchCacheKey of the
\* Result Cache return the same key for every parameter set.
C32_ServiceKeyIsCacheKey ==
  out # NoOut => (out.sa = out.ka /\ out.sb = out.kb)

\* a parameter set with a child and its age gets the same nine-part key twice
C32_Witness ==
  /\ out # NoOut
  /\ args.a.childrenPerRoom = <<1>>
  /\ args.a.childAges = << <<5>> >>
  /\ out.sa = out.ka
  /\ out.sa # generateCacheKeyNoChildren(args.a)

\* ------------------------------------------------------------------------
\* Session Store records of two identities: one saves, the other restores
\* ------------------------------------------------------------------------
\* tenant ids (arc numbers) and usernames as configured
SessionArcs == {<<"a", "_", "b">>, <<"a">>, <<"1", ".", "2">>, <<"1", "_", "2">>}

SessionUsernames == {<<"c">>, <<"b", "_", "c">>, <<"d">>}

\* getSessionId(username, arc): `vax_${arc}_${username}`
getSessionId(username, arc) == <<"v", "a", "x", "_">> \o arc \o <<"_">> \o username

\* getSessionPath(sessionId): every character outside [a-zA-Z0-9-_] becomes "_";
\* the directory and the .json suffix are the same for every id
getSessionPath(sessionId) ==
  [i \in 1..Len(sessionId) |->
     IF sessionId[i] \in AlnumChars \cup {"-", "_"} THEN sessionId[i] ELSE "_"]

SessionIdInit ==
  /\ args \in [none : {FALSE},
               saver : [arc : SessionArcs, username : SessionUsernames],
               restorer : [arc : SessionArcs, username : SessionUsernames]]
  /\ out = NoOut
  /\ now = 0
  /\ db = EmptyDb
  /\ put = [c \in Callers |-> IdlePut]
  /\ puts = 0
  /\ lastPut = [k \in KeyPool |-> NoPut]
  /\ deletedSince = [k \in KeyPool |-> FALSE]
  /\ lastGet = NoGet
  /\ gets = 0
  /\ session = NoSession
  /\ cookieJar = {}
  /\ sessionFile = Absent
  /\ responseFiles = [n \in ResponseNames |-> Absent]
  /\ pc = "idle"
  /\ calls = 0
  /\ call = NoCall
  /\ inFlight = {}
  /\ posts = {}
  /\ searchRequest = <<>>
  /\ proc = <<>>
  /\ creating = [c \in Callers |-> Absent]
  /\ emitted = <<>>

\* saveSession() of a client logged in as the saver: the record is written to
\* the path of its session id
SessionIdSave ==
  /\ out = NoOut
  /\ out' = [none |-> FALSE, stage |-> "saved",
             path |-> getSessionPath(getSessionId(args.saver.username, args.saver.arc)),
             owner |-> args.saver, restored |-> Absent]
  /\ UNCHANGED <<args, db, now>>
  /\ UNCHANGED cacheVars
  /\ UNCHANGED clientVars
  /\ UNCHANGED serviceVars

\* restoreSession(username, arc) of a client configured as the restorer: the
\* record at the path of its session id, whoever wrote it, becomes its session
SessionIdRestore ==
  /\ out # NoOut
  /\ out.stage = "saved"
  /\ out' = [out EXCEPT
               !.stage = "restored",
               !.restored =
                  IF getSessionPath(getSessionId(args.restorer.username,
                                                 args.restorer.arc)) = out.path
                  THEN Some(out.owner) ELSE Absent]
  /\ UNCHANGED <<args, db, now>>
  /\ UNCHANGED cacheVars
  /\ UNCHANGED clientVars
  /\ UNCHANGED serviceVars

SessionIdNext == SessionIdSave \/ SessionIdRestore

SpecSessionId == SessionIdInit /\ [][SessionIdNext]_vars

\* C34: two distinct identities never share a Session Store record: a session
\* restored for an identity was saved by a login of that same identity.
C34_RestoredSessionIsOwn ==
  (out # NoOut /\ out.restored # Absent) => out.restored.v = args.restorer

\* ------------------------------------------------------------------------
\* createSearchRequest called by two callers, suspended at its awaits
\* ------------------------------------------------------------------------
\* createSearchRequest up to the answer of findUnique: a linked request is
\* returned at once, anything else goes on to create a request
CreateSearchRequestFind(c, params) ==
  /\ creating[c] = Absent
  /\ Len(searchRequest) < MaxRequests
  /\ creating' =
       IF LinkedRequests(db, searchRequest, generateCacheKey(params)) # {}
       THEN creating
       ELSE [creating EXCEPT ![c] = Some(params)]
  /\ UNCHANGED <<searchRequest, proc, db, now, emitted>>
  /\ UNCHANGED cacheVars
  /\ UNCHANGED clientVars
  /\ UNCHANGED pureVars

\* createSearchRequest from prisma.searchRequest.create on: the pending row,
\* processSearch started without being awaited, the new id returned
CreateSearchRequestCreate(c) ==
  /\ creating[c] # Absent
  /\ Len(searchRequest) < MaxRequests
  /\ searchRequest' = Append(searchRequest, NewRequest(creating[c].v))
  /\ proc' = Append(proc, NewProc)
  /\ creating' = [creating EXCEPT ![c] = Absent]
  /\ UNCHANGED <<db, now, emitted>>
  /\ UNCHANGED cacheVars
  /\ UNCHANGED clientVars
  /\ UNCHANGED pureVars

\* a fresh SearchService over an empty database, two callers about to call
CreateInit ==
  /\ now = 0
  /\ db = EmptyDb
  /\ put = [c \in Callers |-> IdlePut]
  /\ puts = 0
  /\ lastPut = [k \in KeyPool |-> NoPut]
  /\ deletedSince = [k \in KeyPool |-> FALSE]
  /\ lastGet = NoGet
  /\ gets = 0
  /\ session = NoSession
  /\ cookieJar = {}
  /\ sessionFile = Absent
  /\ responseFiles = [n \in ResponseNames |-> Absent]
  /\ pc = "idle"
  /\ calls = 0
  /\ call = NoCall
  /\ inFlight = {}
  /\ posts = {}
  /\ searchRequest = <<>>
  /\ proc = <<>>
  /\ creating = [c \in Callers |-> Absent]
  /\ emitted = <<>>
  /\ args = NoArgs
  /\ out = NoOut

CreateNext ==
  \/ \E c \in Callers, p \in ServiceParams : CreateSearchRequestFind(c, p)
  \/ \E c \in Callers : CreateSearchRequestCreate(c)
  \/ \E id \in 1..MaxRequests : ProcessSearchStart(id)
  \/ \E id \in 1..MaxRequests, answers \in BOOLEAN : ProcessSearchRace(id, answers)
  \/ \E id \in 1..MaxRequests, o \in SearchOutcomes : ServiceSearchReturns(id, o)
  \/ \E id \in 1..MaxRequests : TimeoutFires(id)
  \/ \E id \in 1..MaxRequests : ProcessSearchFindCache(id)
  \/ \E id \in 1..MaxRequests : ProcessSearchComplete(id)
  \/ \E id \in 1..MaxRequests : ProcessSearchCatch(id)

SpecCreate == CreateInit /\ [][CreateNext]_vars

\* C35: however two createSearchRequest calls with equal parameters
\* interleave, at most one request record exists for their key, and so at
\* most one background search was started for it.
C35_OneRequestPerKey ==
  \A i, j \in DOMAIN searchRequest :
    i # j => generateCacheKey(searchRequest[i].params)
               # generateCacheKey(searchRequest[j].params)

\* ------------------------------------------------------------------------
\* Login through the redirect (checked under SpecAuth)
\* ------------------------------------------------------------------------
\* C36: login reports success through the redirect path only after the manual
\* GET of the redirect target succeeded and the cookies of its response are
\* in the session that is returned and persisted.
C36_SuccessOnlyAfterRedirectGet ==
  (call.followed /\ call.loginRet.set /\ call.loginRet.success) =>
    /\ "app" \in call.loginRet.sessionCookies
    /\ session.has /\ "app" \in session.cookies

\* ------------------------------------------------------------------------
\* The empty aggregate in the cache (checked under Spec)
\* ------------------------------------------------------------------------
\* the database holds an entry without hotels under the key of the parameters
EmptyEntry(d, params) ==
  \E r \in d.searchCache :
    /\ r.cacheKey = generateSearchCacheKey(params)
    /\ \A h \in d.hotel : h.searchCacheId # r.id

\* C37: when every vendor failed or returned nothing, the save of
\* searchAllVendors stores the empty aggregate under the canonical key; a
\* searchAllVendors that finds this entry (the database answering) returns
\* the empty aggregate as a hit and searches no vendor.
C37_EmptyAggregateCachedAndServed ==
  [][/\ (pc = "save_create" /\ call'.saved /\ call.allHotels = <<>>)
          => EmptyEntry(db', call.params)
     /\ (pc = "cache" /\ pc' # "cache" /\ ~call'.cacheFault
           /\ EmptyEntry(db, call.params))
          => /\ pc' = "done"
             /\ call'.result = Result(TRUE, <<>>)
             /\ ~call'.listed
             /\ call'.searched = {}
             /\ posts' = posts]_vars

\* a call whose one vendor failed has saved the empty aggregate
C37_Witness ==
  /\ pc = "done"
  /\ call.saved
  /\ call.allHotels = <<>>
  /\ Len(call.vres) = 1 /\ ~call.vres[1].success
  /\ EmptyEntry(db, call.params)

\* ------------------------------------------------------------------------
\* Restores and the stored expiry (checked under SpecAuth)
\* ------------------------------------------------------------------------
\* C38: a restore leaves the Session Store record as it was: expiresAt stays
\* at the save time plus the TTL, and whatever restores and client instances
\* came before, no login is served from the store later than the TTL after
\* the login that saved the record.
C38_RestoreKeepsExpiry ==
  /\ sessionFile # Absent =>
       sessionFile.v.expiresAt = sessionFile.v.loginTime + sessionTTL
  /\ (call.load # NoLoad /\ call.load.ret # LoadMiss) =>
       /\ call.load.after = call.load.before
       /\ call.load.at <= call.load.before.v.loginTime + sessionTTL

\* a restore at the very end of the TTL that left the record in the store
C38_Witness ==
  /\ call.load # NoLoad
  /\ call.load.ret # LoadMiss
  /\ call.load.before.v.loginTime = 0
  /\ call.load.at = sessionTTL
  /\ sessionFile = call.load.before

\* ------------------------------------------------------------------------
\* SearchService with update listeners (services/search-service.ts)
\* ------------------------------------------------------------------------
\* the longest suppliers column of a request row
MaxSuppliers == 2

\* the suppliers column: names the factory knows and names it has no client for
SupplierLists ==
  UNION {[1..n -> {"vax", "none"}] : n \in 0..MaxSuppliers}

\* prisma.searchRequest.create with status "PENDING"
NewSupplierRequest(params, suppliers) ==
  [searchKey |-> generateCacheKey(params), status |-> "PENDING",
   progress |-> "", hotels |-> 0, error |-> "", suppliers |-> suppliers]

\* processSearch called and suspended at its first update
NewSupplierProc == [pc |-> "init", i |-> 1, err |-> ""]

\* a mutation of getSearchRequest: the response is built from the row as it
\* was created
getSearchRequestAsCreated(reqs, requestId) ==
  [requestId |-> requestId, status |-> "PENDING",
   progress |-> "", hotels |-> 0]

\* getSearchRequest: the row as the database holds it when it is read
getSearchRequest(reqs, requestId) ==
  [requestId |-> requestId, status |-> reqs[requestId].status,
   progress |-> reqs[requestId].progress, hotels |-> reqs[requestId].hotels]

\* this.emitter.emit(`search:${requestId}`, response)
Emit(log, requestId, response) ==
  [log EXCEPT ![requestId] = Append(log[requestId], response)]

\* createSearchRequest: findFirst by searchKey, else create and start
\* processSearch without awaiting it
SupplierCreateSearchRequest(params, suppliers) ==
  /\ Len(searchRequest) < MaxRequests
  /\ \A i \in DOMAIN searchRequest :
        searchRequest[i].searchKey # generateCacheKey(params)
  /\ searchRequest' = Append(searchRequest, NewSupplierRequest(params, suppliers))
  /\ proc' = Append(proc, NewSupplierProc)
  /\ emitted' = Append(emitted, <<>>)
  /\ UNCHANGED <<db, now, creating>>
  /\ UNCHANGED cacheVars
  /\ UNCHANGED clientVars
  /\ UNCHANGED pureVars

\* processSearch, first update: IN_PROGRESS, then the supplier clients are
\* made; a factory that throws lands in the catch block
ProcessSearchInit(id, factoryThrows) ==
  /\ id \in DOMAIN proc
  /\ proc[id].pc = "init"
  /\ searchRequest' = [searchRequest EXCEPT
                         ![id].status = "IN_PROGRESS",
                         ![id].progress = "Initializing search..."]
  /\ proc' = [proc EXCEPT
                ![id].pc = IF factoryThrows THEN "catch" ELSE "loop",
                ![id].err = IF factoryThrows THEN "factory" ELSE ""]
  /\ UNCHANGED <<db, now, creating, emitted>>
  /\ UNCHANGED cacheVars
  /\ UNCHANGED clientVars
  /\ UNCHANGED pureVars

\* the loop head: a name without a client is skipped, otherwise the progress
\* line of the supplier is stored
ProcessSearchProgress(id) ==
  /\ id \in DOMAIN proc
  /\ proc[id].pc = "loop"
  /\ proc[id].i <= Len(searchRequest[id].suppliers)
  /\ IF searchRequest[id].suppliers[proc[id].i] = "none"
     THEN /\ proc' = [proc EXCEPT ![id].i = @ + 1]
          /\ UNCHANGED searchRequest
     ELSE /\ searchRequest' = [searchRequest EXCEPT
                                 ![id].progress = "Searching supplier"]
          /\ proc' = [proc EXCEPT ![id].pc = "emit"]
  /\ UNCHANGED <<db, now, creating, emitted>>
  /\ UNCHANGED cacheVars
  /\ UNCHANGED clientVars
  /\ UNCHANGED pureVars

\* line 125: the row is read and emitted, then the supplier search starts
ProcessSearchEmitProgress(id) ==
  /\ id \in DOMAIN proc
  /\ proc[id].pc = "emit"
  /\ emitted' = Emit(emitted, id, getSearchRequest(searchRequest, id))
  /\ proc' = [proc EXCEPT ![id].pc = "search"]
  /\ UNCHANGED <<db, now, creating, searchRequest>>
  /\ UNCHANGED cacheVars
  /\ UNCHANGED clientVars
  /\ UNCHANGED pureVars

\* supplierClient.search answers: success, success: false (thrown as an
\* Error by line 129) or a rejection
ProcessSearchSupplier(id, answer) ==
  /\ id \in DOMAIN proc
  /\ proc[id].pc = "search"
  /\ proc' = [proc EXCEPT
                ![id].pc = IF answer = "success" THEN "store" ELSE "catch",
                ![id].err = IF answer = "success" THEN "" ELSE answer]
  /\ UNCHANGED <<db, now, creating, emitted, searchRequest>>
  /\ UNCHANGED cacheVars
  /\ UNCHANGED clientVars
  /\ UNCHANGED pureVars

\* the hotels of the supplier are stored on the request; next supplier
ProcessSearchStoreHotels(id) ==
  /\ id \in DOMAIN proc
  /\ proc[id].pc = "store"
  /\ searchRequest' = [searchRequest EXCEPT ![id].hotels = @ + 1]
  /\ proc' = [proc EXCEPT ![id].pc = "loop", ![id].i = @ + 1]
  /\ UNCHANGED <<db, now, creating, emitted>>
  /\ UNCHANGED cacheVars
  /\ UNCHANGED clientVars
  /\ UNCHANGED pureVars

\* after the loop: the update to COMPLETED
ProcessSearchCompleted(id) ==
  /\ id \in DOMAIN proc
  /\ proc[id].pc = "loop"
  /\ proc[id].i > Len(searchRequest[id].suppliers)
  /\ searchRequest' = [searchRequest EXCEPT
                         ![id].status = "COMPLETED",
                         ![id].progress = "Search completed"]
  /\ proc' = [proc EXCEPT ![id].pc = "finally"]
  /\ UNCHANGED <<db, now, creating, emitted>>
  /\ UNCHANGED cacheVars
  /\ UNCHANGED clientVars
  /\ UNCHANGED pureVars

\* the catch block: the update to FAILED with the error message
ProcessSearchFailed(id) ==
  /\ id \in DOMAIN proc
  /\ proc[id].pc = "catch"
  /\ searchRequest' = [searchRequest EXCEPT
                         ![id].status = "FAILED",
                         ![id].error = proc[id].err]
  /\ proc' = [proc EXCEPT ![id].pc = "finally"]
  /\ UNCHANGED <<db, now, creating, emitted>>
  /\ UNCHANGED cacheVars
  /\ UNCHANGED clientVars
  /\ UNCHANGED pureVars

\* the finally block: the row is read and emitted
ProcessSearchFinally(id) ==
  /\ id \in DOMAIN proc
  /\ proc[id].pc = "finally"
  /\ emitted' = Emit(emitted, id, getSearchRequest(searchRequest, id))
  /\ proc' = [proc EXCEPT ![id].pc = "done"]
  /\ UNCHANGED <<db, now, creating, searchRequest>>
  /\ UNCHANGED cacheVars
  /\ UNCHANGED clientVars
  /\ UNCHANGED pureVars

\* a fresh SearchService with no listeners served yet
EmitInit ==
  /\ now = 0
  /\ db = EmptyDb
  /\ put = [c \in Callers |-> IdlePut]
  /\ puts = 0
  /\ lastPut = [k \in KeyPool |-> NoPut]
  /\ deletedSince = [k \in KeyPool |-> FALSE]
  /\ lastGet = NoGet
  /\ gets = 0
  /\ session = NoSession
  /\ cookieJar = {}
  /\ sessionFile = Absent
  /\ responseFiles = [n \in ResponseNames |-> Absent]
  /\ pc = "idle"
  /\ calls = 0
  /\ call = NoCall
  /\ inFlight = {}
  /\ posts = {}
  /\ args = NoArgs
  /\ out = NoOut
  /\ searchRequest = <<>>
  /\ proc = <<>>
  /\ creating = [c \in Callers |-> Absent]
  /\ emitted = <<>>

EmitNext ==
  \/ \E params \in ServiceParams, suppliers \in SupplierLists :
        SupplierCreateSearchRequest(params, suppliers)
  \/ \E id \in 1..MaxRequests, factoryThrows \in BOOLEAN :
        ProcessSearchInit(id, factoryThrows)
  \/ \E id \in 1..MaxRequests : ProcessSearchProgress(id)
  \/ \E id \in 1..MaxRequests : ProcessSearchEmitProgress(id)
  \/ \E id \in 1..MaxRequests,
        answer \in {"success", "Supplier search failed", "rejected"} :
        ProcessSearchSupplier(id, answer)
  \/ \E id \in 1..MaxRequests : ProcessSearchStoreHotels(id)
  \/ \E id \in 1..MaxRequests : ProcessSearchCompleted(id)
  \/ \E id \in 1..MaxRequests : ProcessSearchFailed(id)
  \/ \E id \in 1..MaxRequests : ProcessSearchFinally(id)

SpecEmit == EmitInit /\ [][EmitNext]_vars

TerminalStatus == {"COMPLETED", "FAILED"}

====
